---- MODULE Spec2Model ----
(***************************************************************************)
(* update-route53: a process that keeps one Route 53 "A" record equal to   *)
(* the host's external address.  The model follows src/main.go, the        *)
(* context-aware revision (lines 272-589): main's scheduling loop,         *)
(* updateRoute53 (one reconciliation cycle) and getCurrentRecordValue (the *)
(* paginated record read).  The address endpoint, the DNS provider, the    *)
(* interval timer and the shutdown signal are the environment.             *)
(*                                                                         *)
(* Texts that the code parses (the response body, record values) are       *)
(* sequences of one-character strings; names and identifiers that the code *)
(* only concatenates and compares are TLA+ strings.                        *)
(***************************************************************************)
EXTENDS Naturals, Integers, Sequences, FiniteSets, TLC

(***************************************************************************)
(* Bounds of the model.                                                    *)
(***************************************************************************)
MaxCycles == 2      \* reconciliation cycles started in one run
MaxExternal == 1    \* edits of the record by another actor in one run
PageSize == 2       \* record sets the provider returns per list call
MaxElapsed == 1
MaxWait == 2     \* seconds a cycle may take, as the clock measures them

(***************************************************************************)
(* Characters and texts.                                                   *)
(***************************************************************************)
Digits == {"0", "1", "2", "3", "4", "5", "6", "7", "8", "9"}
HexLetters == {"a", "b", "c", "d", "e", "f", "A", "B", "C", "D", "E", "F"}
Space == {" ", "\t", "\n", "\r"}

DigitVal(c) ==
    CASE c = "0" -> 0 [] c = "1" -> 1 [] c = "2" -> 2 [] c = "3" -> 3
      [] c = "4" -> 4 [] c = "5" -> 5 [] c = "6" -> 6 [] c = "7" -> 7
      [] c = "8" -> 8 [] c = "9" -> 9

\* strings.TrimSpace: drop the leading and the trailing white space.
RECURSIVE TrimLeft(_)
TrimLeft(s) ==
    IF s # << >> /\ Head(s) \in Space THEN TrimLeft(Tail(s)) ELSE s

RECURSIVE TrimRight(_)
TrimRight(s) ==
    IF s # << >> /\ s[Len(s)] \in Space
    THEN TrimRight(SubSeq(s, 1, Len(s) - 1))
    ELSE s

TrimSpace(s) == TrimRight(TrimLeft(s))

(***************************************************************************)
(* net.ParseIP, as the Go library computes it (net/netip.ParseAddr): the   *)
(* first '.', ':' or '%' of the text selects the IPv4 or the IPv6 parser.  *)
(***************************************************************************)

\* parseIPv4Fields: decimal fields separated by dots.  val and digLen are
\* the value and the digit count of the field being read, pos the number of
\* fields completed, i the index of the next character.
RECURSIVE ParseIPv4Fields(_, _, _, _, _)
ParseIPv4Fields(s, i, val, digLen, pos) ==
    IF i > Len(s) THEN pos = 3
    ELSE IF s[i] \in Digits
         THEN /\ ~(digLen = 1 /\ val = 0)
              /\ val * 10 + DigitVal(s[i]) <= 255
              /\ ParseIPv4Fields(s, i + 1, val * 10 + DigitVal(s[i]), digLen + 1, pos)
    ELSE IF s[i] = "."
         THEN /\ ~(i = 1 \/ i = Len(s) \/ s[i - 1] = ".")
              /\ pos # 3
              /\ ParseIPv4Fields(s, i + 1, 0, 0, pos + 1)
    ELSE FALSE

ParseIPv4(s) == ParseIPv4Fields(s, 1, 0, 0, 0)

\* The number of leading hexadecimal digits of s.
RECURSIVE HexRun(_)
HexRun(s) ==
    IF s # << >> /\ Head(s) \in (Digits \cup HexLetters)
    THEN 1 + HexRun(Tail(s))
    ELSE 0

Drop(s, n) == SubSeq(s, n + 1, Len(s))

\* The loop of parseIPv6: i is the number of address bytes filled so far,
\* ellipsis whether a "::" was seen.  A group has 1 to 4 hexadecimal digits;
\* a group followed by a dot starts the embedded IPv4 tail.
RECURSIVE ParseIPv6Loop(_, _, _)
ParseIPv6Loop(s, i, ellipsis) ==
    IF i >= 16 THEN s = << >> /\ ~ellipsis
    ELSE LET off == HexRun(s) IN
         IF off = 0 \/ off > 4 THEN FALSE
         ELSE IF off < Len(s) /\ s[off + 1] = "."
              THEN /\ ~(~ellipsis /\ i # 12)
                   /\ i + 4 <= 16
                   /\ ParseIPv4(s)
                   /\ (i + 4 < 16 => ellipsis)
                   /\ (i + 4 = 16 => ~ellipsis)
         ELSE LET r == Drop(s, off) IN
              IF r = << >> THEN IF i + 2 < 16 THEN ellipsis ELSE ~ellipsis
              ELSE IF r[1] # ":" \/ Len(r) = 1 THEN FALSE
              ELSE IF r[2] = ":"
                   THEN /\ ~ellipsis
                        /\ IF Len(r) = 2 THEN i + 2 < 16
                           ELSE ParseIPv6Loop(Drop(r, 2), i + 2, TRUE)
              ELSE ParseIPv6Loop(Drop(r, 1), i + 2, ellipsis)

\* parseIPv6; a text with a zone ("%...") is never accepted by net.ParseIP.
ParseIPv6(s) ==
    IF \E k \in 1..Len(s) : s[k] = "%" THEN FALSE
    ELSE IF Len(s) >= 2 /\ s[1] = ":" /\ s[2] = ":"
         THEN Len(s) = 2 \/ ParseIPv6Loop(Drop(s, 2), 0, TRUE)
    ELSE ParseIPv6Loop(s, 0, FALSE)

\* The index of the first '.', ':' or '%' of s at or after i (0 if none).
RECURSIVE FirstMark(_, _)
FirstMark(s, i) ==
    IF i > Len(s) THEN 0
    ELSE IF s[i] \in {".", ":", "%"} THEN i
    ELSE FirstMark(s, i + 1)

\* A variant that takes the empty text for an address.
ParseIP_EmptyOk(s) ==
    LET k == FirstMark(s, 1) IN
    IF k = 0 THEN s = << >>
    ELSE IF s[k] = "." THEN ParseIPv4(s)
    ELSE IF s[k] = ":" THEN ParseIPv6(s)
    ELSE FALSE

\* TRUE iff net.ParseIP(s) is not nil.
ParseIP(s) ==
    LET k == FirstMark(s, 1) IN
    IF k = 0 THEN FALSE
    ELSE IF s[k] = "." THEN ParseIPv4(s)
    ELSE IF s[k] = ":" THEN ParseIPv6(s)
    ELSE FALSE


(***************************************************************************)
(* Values of the model.                                                    *)
(***************************************************************************)
Nil == "nil"                       \* a nil pointer / an unset field
None == << >>                      \* no value yet
Some(v) == <<v>>

IP1 == <<"1", ".", "2", ".", "3", ".", "4">>
IP2 == <<"5", ".", "6", ".", "7", ".", "8">>
IP6 == <<":", ":", "1">>

\* Response bodies of the address endpoint.
Bodies ==
    { IP1 \o <<"\n">>,                                   \* "1.2.3.4\n"
      IP2,                                               \* "5.6.7.8"
      IP6,                                               \* "::1"
      << >>,                                             \* ""
      <<"n", "o", "t", "-", "a", "n", "-", "i", "p">> }  \* "not-an-ip"

\* DNS_NAME values that startup accepts (any non-empty text); the second one
\* is already fully qualified.
DnsNames == {"home.example.com", "home.example.com."}
Qualified == {"home.example.com."}

\* DNS_TTL values (strconv.ParseUint(s, 10, 32): 0 .. 2^32 - 1).
TTLs == {0, 300}

HostedZoneIds == {"ZXXXXXXXXX"}

\* SLEEP_PERIOD values, in seconds (the default, 5 * time.Minute).
SleepPeriods == {300}

\* A variant that sets the first timer to the interval.
InitialDelay_Interval == CHOOSE d \in SleepPeriods : TRUE

\* time.NewTimer(0): the duration of the timer main starts with.
InitialDelay == 0

\* int64(dnsTTL) and uint64(*recordSet.TTL): dnsTTL is below 2^32 and a
\* record's TTL is not negative, so neither conversion leaves the range in
\* which the two types agree.
Int64(u) == u
Uint64(i) == i

(***************************************************************************)
(* The configuration: command line and environment (src/main.go 459-506).  *)
(* Durations are in whole seconds.                                         *)
(***************************************************************************)
\* checkIPURL = "http://checkip.amazonaws.com/"
CheckIPURLDefault ==
    <<"h", "t", "t", "p", ":", "/", "/", "c", "h", "e", "c", "k", "i", "p", ".", "a", "m", "a", "z", "o", "n", "a", "w", "s", ".", "c", "o", "m", "/">>

\* dnsTTL = uint64(300)
DnsTTLDefault == 300

\* sleepPeriod = 5 * time.Minute
SleepPeriodDefault == 5 * 60

\* flag.Uint("port", 8080, ...)
PortDefault == 8080

\* The digits of 2^32 - 1 and of 2^64 - 1, the largest values of
\* strconv.ParseUint with bitSize 32 and 64.
MaxUint32Digits == <<"4", "2", "9", "4", "9", "6", "7", "2", "9", "5">>
MaxUint64Digits == <<"1", "8", "4", "4", "6", "7", "4", "4", "0", "7", "3", "7", "0", "9", "5", "5", "1", "6", "1", "5">>

RECURSIVE StripZeros(_)
StripZeros(s) ==
    IF Len(s) > 1 /\ s[1] = "0" THEN StripZeros(Tail(s)) ELSE s

\* a <= b for digit sequences of the same length.
RECURSIVE DigitsLeq(_, _)
DigitsLeq(a, b) ==
    IF a = << >> THEN TRUE
    ELSE IF DigitVal(a[1]) # DigitVal(b[1]) THEN DigitVal(a[1]) < DigitVal(b[1])
    ELSE DigitsLeq(Tail(a), Tail(b))

RECURSIVE DecimalValue(_, _)
DecimalValue(s, acc) ==
    IF s = << >> THEN acc ELSE DecimalValue(Tail(s), acc * 10 + DigitVal(s[1]))

\* strconv.ParseUint(s, 10, bitSize) with the largest value given by its
\* digits: decimal digits only, no sign, not empty, within the range.
ParseUint(s, maxDigits) ==
    LET wellFormed == s # << >> /\ \A i \in 1..Len(s) : s[i] \in Digits
        d == StripZeros(s)
        inRange == \/ Len(d) < Len(maxDigits)
                   \/ Len(d) = Len(maxDigits) /\ DigitsLeq(d, maxDigits)
    IN  IF wellFormed /\ inRange
        THEN [ok |-> TRUE, val |-> DecimalValue(d, 0)]
        ELSE [ok |-> FALSE, val |-> 0]

\* The seconds of a unit of time.ParseDuration, or 0 for no unit.
UnitSeconds(u) ==
    IF u = <<"s">> THEN 1
    ELSE IF u = <<"m">> THEN 60
    ELSE IF u = <<"h">> THEN 3600
    ELSE 0

\* The longest run of digits at the head of s.
RECURSIVE DigitRun(_)
DigitRun(s) ==
    IF s # << >> /\ s[1] \in Digits THEN <<s[1]>> \o DigitRun(Tail(s)) ELSE << >>

\* The longest run at the head of s that holds no digit and no ".".
RECURSIVE UnitRun(_)
UnitRun(s) ==
    IF s # << >> /\ s[1] \notin Digits \cup {"."}
    THEN <<s[1]>> \o UnitRun(Tail(s)) ELSE << >>

\* The groups of time.ParseDuration: a number and a unit, one or more times.
RECURSIVE ParseDurationGroups(_, _)
ParseDurationGroups(s, acc) ==
    IF s = << >> THEN [ok |-> TRUE, val |-> acc]
    ELSE LET n == DigitRun(s)
             rest == Drop(s, Len(n))
             u == UnitRun(rest)
         IN  IF n = << >> \/ UnitSeconds(u) = 0
             THEN [ok |-> FALSE, val |-> 0]
             ELSE ParseDurationGroups(Drop(rest, Len(u)),
                                      acc + DecimalValue(n, 0) * UnitSeconds(u))

\* time.ParseDuration(s) for durations of whole seconds: an optional sign,
\* then "0" or groups of a number and a unit.
ParseDuration(s) ==
    LET signed == s # << >> /\ s[1] \in {"-", "+"}
        body == IF signed THEN Tail(s) ELSE s
        groups == ParseDurationGroups(body, 0)
    IN  IF body = << >> THEN [ok |-> FALSE, val |-> 0]
        ELSE IF body = <<"0">> THEN [ok |-> TRUE, val |-> 0]
        ELSE IF ~groups.ok THEN groups
        ELSE [ok |-> TRUE,
              val |-> IF signed /\ s[1] = "-" THEN 0 - groups.val ELSE groups.val]

\* A "%" of s that is not followed by two hex digits.
BadEscape(s) ==
    \E i \in 1..Len(s) :
        /\ s[i] = "%"
        /\ \/ i + 2 > Len(s)
           \/ s[i + 1] \notin Digits \cup HexLetters
           \/ s[i + 2] \notin Digits \cup HexLetters

\* url.Parse(s) returns no error: no control character, a scheme before a
\* leading colon, no malformed escape.
UrlParse(s) ==
    /\ \A i \in 1..Len(s) : s[i] \notin {"\t", "\n", "\r"}
    /\ ~(s # << >> /\ s[1] = ":")
    /\ ~BadEscape(s)

\* Values of the environment variables and of -port.
DnsNameTexts == {"", "home.example.com", "home.example.com."}
HostedZoneIdTexts == {"", "ZXXXXXXXXX"}
DnsTTLTexts ==
    { << >>, <<"0">>, <<"6", "0">>, <<"a", "b", "c">>, <<"-", "1">>,
      <<"4", "2", "9", "4", "9", "6", "7", "2", "9", "6">> }
CheckIPTexts ==
    { << >>,
      <<"h", "t", "t", "p", ":", "/", "/", "m", "y", "i", "p", ".", "e", "x", "a", "m", "p", "l", "e", ".", "c", "o", "m", "/">>,
      <<":", "8", "0", "8", "0", "/", "i", "p">>,
      <<"h", "t", "t", "p", ":", "/", "/", "a", "/", "%", "z", "z">> }
SleepPeriodTexts ==
    { << >>, <<"1", "0", "m">>, <<"1", "h", "3", "0", "m">>, <<"0">>,
      <<"-", "5", "m">>, <<"1", "0">>, <<"n", "o", "t", "-", "a", "-", "d", "u", "r", "a", "t", "i", "o", "n">> }
PortTexts ==
    { <<"9", "0", "9", "0">>, <<"1">>, <<"0">>, <<"6", "5", "5", "3", "5">>,
      <<"6", "5", "5", "3", "6">>, <<"a", "b", "c">> }

\* os.Getenv gives the empty text for a variable that is not set.
Environs ==
    [DNS_NAME : DnsNameTexts, DNS_TTL : DnsTTLTexts,
     HOSTED_ZONE_ID : HostedZoneIdTexts, CHECK_IP : CheckIPTexts,
     SLEEP_PERIOD : SleepPeriodTexts]

(***************************************************************************)
(* The hosted zone at the provider.  The provider lists record sets in a   *)
(* fixed order of their keys (name, type, set identifier); ZoneKeys is     *)
(* that order for the keys of the model, and zone[i] is the record set     *)
(* with key ZoneKeys[i], or NoRecord.  Names are stored fully qualified,   *)
(* with exactly one trailing dot.                                          *)
(***************************************************************************)
NoRecord ==
    [Name |-> Nil, Type |-> Nil, SetIdentifier |-> Nil,
     TTL |-> -1, ResourceRecords |-> << >>]

ZoneKeys ==
    << [Name |-> "a.example.com.",    Type |-> "A",   SetIdentifier |-> Nil],
       [Name |-> "home.example.com.", Type |-> "TXT", SetIdentifier |-> Nil],
       [Name |-> "home.example.com.", Type |-> "A",   SetIdentifier |-> Nil],
       [Name |-> "home.example.com.", Type |-> "A",   SetIdentifier |-> "w1"],
       [Name |-> "home.example.com.", Type |-> "A",   SetIdentifier |-> "w2"] >>

ZoneSlots == 1..Len(ZoneKeys)

RecordSet(k, ttl, values) ==
    [Name |-> ZoneKeys[k].Name, Type |-> ZoneKeys[k].Type,
     SetIdentifier |-> ZoneKeys[k].SetIdentifier,
     TTL |-> ttl, ResourceRecords |-> values]

\* An alias record set has no TTL (a nil pointer) and no resource records.
NilTTL == -1
AliasSet(k) == RecordSet(k, NilTTL, << >>)

\* The provider's name normalisation.
Fqdn(name) == IF name \in Qualified THEN name ELSE name \o "."

\* The slot of the A record of a host name.
SlotOf(name) ==
    CHOOSE k \in ZoneSlots :
        ZoneKeys[k] = [Name |-> Fqdn(name), Type |-> "A", SetIdentifier |-> Nil]

TargetSlot == SlotOf("home.example.com")

\* The slots of record sets with a set identifier (weighted and other routed
\* record sets: several of them may share a name and a type).
RoutedSlots == { k \in ZoneSlots : ZoneKeys[k].SetIdentifier # Nil }

\* What a slot may hold at startup.
SlotChoices(k) ==
    IF k = TargetSlot
    THEN { NoRecord, AliasSet(k),
           RecordSet(k, 300, <<[Value |-> IP1]>>),
           RecordSet(k, 60, <<[Value |-> IP1]>>),
           RecordSet(k, 300, <<[Value |-> IP2]>>),
           RecordSet(k, 300, <<[Value |-> IP1], [Value |-> IP2]>>) }
    ELSE IF k \in RoutedSlots
    THEN { NoRecord,
           RecordSet(k, IF ZoneKeys[k].SetIdentifier = "w1" THEN 300 ELSE 60,
                     <<[Value |-> IF ZoneKeys[k].SetIdentifier = "w1"
                                  THEN IP1 ELSE IP2]>>) }
    ELSE IF ZoneKeys[k].Type = "A"
    THEN { NoRecord, RecordSet(k, 300, <<[Value |-> IP2]>>) }
    ELSE { NoRecord, RecordSet(k, 300, <<[Value |-> <<"t">>]>>) }

\* The provider keeps either one plain record set for a name and type, or
\* record sets with set identifiers, never both; the routed record sets of
\* the model come as a pair.
Consistent(z) ==
    /\ \A k \in RoutedSlots : z[k] # NoRecord => z[TargetSlot] = NoRecord
    /\ \A j \in RoutedSlots, k \in RoutedSlots : (z[j] = NoRecord) <=> (z[k] = NoRecord)

\* The zones at startup.
Zones ==
    { z \in [ZoneSlots -> UNION {SlotChoices(k) : k \in ZoneSlots}] :
        /\ \A k \in ZoneSlots : z[k] \in SlotChoices(k)
        /\ Consistent(z) }

\* The first record set of type A that the provider lists for a host name,
\* or NoRecord.
HostRecord(z, name) ==
    LET S == { k \in ZoneSlots : /\ ZoneKeys[k].Name = Fqdn(name)
                                 /\ ZoneKeys[k].Type = "A"
                                 /\ z[k] # NoRecord }
    IN  IF S = {} THEN NoRecord ELSE z[CHOOSE k \in S : \A j \in S : k <= j]

\* What another actor may make of the target record.
ExternalChoices ==
    { NoRecord, RecordSet(TargetSlot, 300, <<[Value |-> IP2]>>) }

(***************************************************************************)
(* ListResourceRecordSets at the provider.                                 *)
(***************************************************************************)
\* The request getCurrentRecordValue starts with: the zone, no start markers.
NewListInput(zoneId) ==
    [HostedZoneId |-> "/hostedzone/" \o zoneId,
     StartRecordName |-> Nil, StartRecordType |-> Nil,
     StartRecordIdentifier |-> Nil]

\* The first key at or after the start markers in the provider's order.
StartSlot(in) ==
    IF in.StartRecordName = Nil THEN 1
    ELSE LET S == { k \in ZoneSlots :
                      /\ ZoneKeys[k].Name = in.StartRecordName
                      /\ in.StartRecordType \in {Nil, ZoneKeys[k].Type}
                      /\ in.StartRecordIdentifier \in {Nil, ZoneKeys[k].SetIdentifier} }
         IN  CHOOSE k \in S : \A j \in S : k <= j

\* The slots that hold a record set, from slot k on, in order.
RECURSIVE Present(_, _)
Present(z, k) ==
    IF k > Len(ZoneKeys) THEN << >>
    ELSE IF z[k] = NoRecord THEN Present(z, k + 1)
    ELSE <<k>> \o Present(z, k + 1)

\* One page: at most PageSize record sets from the start markers on, the
\* truncation flag and the key of the first record set not returned.
ListPage(z, in) ==
    LET rest == Present(z, StartSlot(in))
        n == IF Len(rest) < PageSize THEN Len(rest) ELSE PageSize
        more == Len(rest) > n
    IN  [ResourceRecordSets |-> [i \in 1..n |-> z[rest[i]]],
         IsTruncated |-> more,
         NextRecordName |-> IF more THEN ZoneKeys[rest[n + 1]].Name ELSE Nil,
         NextRecordType |-> IF more THEN ZoneKeys[rest[n + 1]].Type ELSE Nil,
         NextRecordIdentifier |->
             IF more THEN ZoneKeys[rest[n + 1]].SetIdentifier ELSE Nil]

(***************************************************************************)
(* State.                                                                  *)
(***************************************************************************)
VARIABLES
    dnsName,            \* DNS_NAME
    dnsTTL,             \* DNS_TTL
    hostedZoneId,       \* HOSTED_ZONE_ID
    sleepPeriod,        \* SLEEP_PERIOD, in seconds
    checkIPURL,         \* CHECK_IP
    port,               \* -port
    environ,            \* the environment variables of the process
    args,               \* the value given to -port on the command line, if any
    svc,                \* the Route 53 client has been created
    server,             \* the health check/metrics server: "none" or "listening"
    answer,             \* the answer to the last GET /healthz, if any
    scraped,            \* the counters as the last GET /metrics exposed them, if any
    serverLog,          \* the last log event of the goroutine that shuts the server down
    zone,               \* the provider's record sets, by slot
    ctxDone,            \* the context of signal.NotifyContext is cancelled
    timer,              \* sleepTimer: "armed", "ready" (a value is in C) or "idle"
    timerDur,           \* sleepTimer: the duration it was last set to
    extEdits,           \* edits made by another actor so far
    pc,                 \* where main is
    cycles,             \* cycles started so far
    since,              \* time.Since(start): the time since the running cycle started
    resp,               \* updateRoute53: what the address request returned
    ipstr,              \* updateRoute53: the trimmed response body
    input,              \* getCurrentRecordValue: the list request being built
    ret,                \* getCurrentRecordValue: what it returned
    currentRecordValue, \* updateRoute53: result of the first read
    currentRecordTTL,
    changeInput,        \* the change request this cycle submitted, if any
    waitErr,            \* the error waiter.Wait returned, or Nil
    waited,             \* waiter.Wait: status polls answered "PENDING" so far
    delay,              \* waiter.Wait: the last delay before a status poll, in seconds
    updatedRecordValue, \* updateRoute53: result of the confirm read
    updatedRecordTTL,
    log,                \* the last log event
    updatesTotal,       \* counter update_route53_updates_total
    updateDuration,     \* counter update_route53_duration_total
    accepted,           \* history: change requests the provider accepted
    trail,              \* history: list calls of the running read, request and page
    steps,              \* history: the outgoing calls of the running cycle
    sawSlot,            \* history: the record of the host name when the first read returned
    startUpdates,       \* history: updatesTotal when the running cycle started
    prev                \* history: the previous cycle, if it was a settled one

config == <<dnsName, dnsTTL, hostedZoneId, sleepPeriod, checkIPURL, port,
            environ, args, svc>>
http == <<server, answer, scraped, serverLog>>
env == <<zone, ctxDone, timer, timerDur, extEdits>>
reads == <<input, ret, currentRecordValue, currentRecordTTL>>
confirms == <<updatedRecordValue, updatedRecordTTL>>
locals == <<resp, ipstr, reads, changeInput, waitErr, waited, delay,
           confirms>>
metrics == <<updatesTotal, updateDuration>>
history == <<accepted, trail, steps, sawSlot, startUpdates, prev>>
vars == <<config, http, env, pc, cycles, since, locals, log, metrics, history>>

NoResp == [status |-> "none", body |-> << >>]

\* getCurrentRecordValue has not returned.
NoRet == [value |-> << >>, ttl |-> 0, err |-> "pending"]

Event(level, msg) == [level |-> level, msg |-> msg]

\* Nothing has been logged.
NoEvent == Event("none", "")

Step(op, res) == [op |-> op, res |-> res]

\* The environments under which the loop is explored.
LoopEnvirons ==
    { e \in Environs :
        /\ e.DNS_NAME \in DnsNames
        /\ e.HOSTED_ZONE_ID \in HostedZoneIds
        /\ e.DNS_TTL \in {<< >>, <<"0">>}
        /\ e.CHECK_IP = << >>
        /\ e.SLEEP_PERIOD = << >> }

\* main has gone through its startup (456-566) and is about to enter the loop.
Init ==
    /\ environ \in LoopEnvirons
    /\ args = None
    /\ dnsName = environ.DNS_NAME
    /\ dnsTTL = IF environ.DNS_TTL = << >> THEN DnsTTLDefault
                ELSE ParseUint(environ.DNS_TTL, MaxUint32Digits).val
    /\ dnsTTL \in TTLs
    /\ hostedZoneId = environ.HOSTED_ZONE_ID
    /\ sleepPeriod = SleepPeriodDefault
    /\ sleepPeriod \in SleepPeriods
    /\ checkIPURL = CheckIPURLDefault
    /\ port = PortDefault
    /\ svc = TRUE
    /\ server = "listening"
    /\ answer = None
    /\ scraped = None
    /\ serverLog = NoEvent
    /\ zone \in Zones
    /\ ctxDone = FALSE
    /\ timer = "armed"
    /\ timerDur = InitialDelay
    /\ extEdits = 0
    /\ pc = "select"
    /\ cycles = 0
    /\ since = 0
    /\ resp = NoResp
    /\ ipstr = << >>
    /\ input = NewListInput(hostedZoneId)
    /\ ret = NoRet
    /\ currentRecordValue = << >>
    /\ currentRecordTTL = 0
    /\ changeInput = None
    /\ waitErr = Nil
    /\ waited = 0
    /\ delay = 0
    /\ updatedRecordValue = << >>
    /\ updatedRecordTTL = 0
    /\ log = Event("info", "starting route53-updater...")
    /\ updatesTotal = 0
    /\ updateDuration = 0
    /\ accepted = 0
    /\ trail = << >>
    /\ steps = << >>
    /\ sawSlot = None
    /\ startUpdates = 0
    /\ prev = None

(***************************************************************************)
(* main: the scheduling loop (src/main.go 565-588).                        *)
(***************************************************************************)

\* A variant that starts a cycle whenever the interval has passed, whether
\* or not the cycle before it has returned.
StartCycle_Overlapping ==
    /\ pc \notin {"exited", "crashed"}
    /\ cycles < MaxCycles
    /\ timer' = "idle"
    /\ cycles' = cycles + 1
    /\ pc' = "fetch"
    /\ resp' = NoResp
    /\ ipstr' = << >>
    /\ input' = NewListInput(hostedZoneId)
    /\ ret' = NoRet
    /\ currentRecordValue' = << >>
    /\ currentRecordTTL' = 0
    /\ changeInput' = None
    /\ waitErr' = Nil
    /\ waited' = 0
    /\ delay' = 0
    /\ updatedRecordValue' = << >>
    /\ updatedRecordTTL' = 0
    /\ trail' = << >>
    /\ steps' = << >>
    /\ sawSlot' = None
    /\ startUpdates' = updatesTotal
    /\ since' = 0
    /\ UNCHANGED <<config, http, zone, ctxDone, timerDur, extEdits, log, metrics,
                   accepted, prev>>

\* select, case <-sleepTimer.C: a cycle starts; its locals are fresh.
StartCycle ==
    /\ pc = "select"
    /\ timer = "ready"
    /\ cycles < MaxCycles
    /\ timer' = "idle"
    /\ cycles' = cycles + 1
    /\ pc' = "fetch"
    /\ resp' = NoResp
    /\ ipstr' = << >>
    /\ input' = NewListInput(hostedZoneId)
    /\ ret' = NoRet
    /\ currentRecordValue' = << >>
    /\ currentRecordTTL' = 0
    /\ changeInput' = None
    /\ waitErr' = Nil
    /\ waited' = 0
    /\ delay' = 0
    /\ updatedRecordValue' = << >>
    /\ updatedRecordTTL' = 0
    /\ trail' = << >>
    /\ steps' = << >>
    /\ sawSlot' = None
    /\ startUpdates' = updatesTotal
    /\ since' = 0
    /\ UNCHANGED <<config, http, zone, ctxDone, timerDur, extEdits, log, metrics,
                   accepted, prev>>

\* select, case <-ctx.Done(): main returns.
Shutdown ==
    /\ pc = "select"
    /\ ctxDone
    /\ pc' = "exited"
    /\ log' = Event("info", "shutting down")
    /\ UNCHANGED <<config, since, http, env, cycles, locals, metrics, history>>

\* The first read of the running cycle has returned a result.
FirstReadDone ==
    \E i \in 1..Len(steps) :
        /\ steps[i].op = "list"
        /\ steps[i].res \in {"found", "absent"}
        /\ \A j \in 1..i : steps[j].op # "change"

\* The running cycle observed an address and read the record while the
\* provider held that address with the configured TTL for the host name.
Settled ==
    /\ FirstReadDone
    /\ sawSlot = Some(RecordSet(SlotOf(dnsName), dnsTTL, <<[Value |-> ipstr]>>))

\* A variant that adds nothing to the duration counter.
Record_NoAdd ==
    /\ pc = "record"
    /\ timer' = "armed"
    /\ timerDur' = sleepPeriod
    /\ pc' = "select"
    /\ prev' = IF Settled
               THEN Some([addr |-> ipstr, submitted |-> changeInput # None,
                          before |-> startUpdates])
               ELSE None
    /\ UNCHANGED <<config, since, http, zone, ctxDone, extEdits, cycles, locals, log,
                   metrics, accepted, trail, steps, sawSlot, startUpdates>>

\* A variant that doubles the wait after a cycle that ended on an error.
Record_Backoff ==
    /\ pc = "record"
    /\ updateDuration' = updateDuration + since
    /\ timer' = "armed"
    /\ timerDur' = IF log.level = "error" THEN 2 * sleepPeriod ELSE sleepPeriod
    /\ pc' = "select"
    /\ prev' = IF Settled
               THEN Some([addr |-> ipstr, submitted |-> changeInput # None,
                          before |-> startUpdates])
               ELSE None
    /\ UNCHANGED <<config, since, http, zone, ctxDone, extEdits, cycles, locals, log,
                   updatesTotal, accepted, trail, steps, sawSlot, startUpdates>>

\* A variant that does not set the timer again.
Record_NoReset ==
    /\ pc = "record"
    /\ updateDuration' = updateDuration + since
    /\ pc' = "select"
    /\ prev' = IF Settled
               THEN Some([addr |-> ipstr, submitted |-> changeInput # None,
                          before |-> startUpdates])
               ELSE None
    /\ UNCHANGED <<config, since, http, env, cycles, locals, log, updatesTotal, accepted,
                   trail, steps, sawSlot, startUpdates>>

\* updateRoute53 has returned: updateDuration.Add(time.Since(start)) and
\* sleepTimer.Reset(sleepPeriod).
Record ==
    /\ pc = "record"
    /\ updateDuration' = updateDuration + since
    /\ timer' = "armed"
    /\ timerDur' = sleepPeriod
    /\ pc' = "select"
    /\ prev' = IF Settled
               THEN Some([addr |-> ipstr, submitted |-> changeInput # None,
                          before |-> startUpdates])
               ELSE None
    /\ UNCHANGED <<config, since, http, zone, ctxDone, extEdits, cycles, locals, log,
                   updatesTotal, accepted, trail, steps, sawSlot, startUpdates>>

(***************************************************************************)
(* updateRoute53: one reconciliation cycle (src/main.go 325-430).          *)
(***************************************************************************)

\* The cycle ends with a log event.
Return(level, msg) ==
    /\ log' = Event(level, msg)
    /\ pc' = "record"

\* A variant that sends the address request again when it has failed.
Fetch_Retried(r) ==
    /\ pc = "fetch"
    /\ r.status = "body" => ~ctxDone
    /\ resp' = r
    /\ IF r.status = "request_error"
       THEN /\ steps' = Append(steps, Step("fetch", "request_error"))
            /\ UNCHANGED <<pc, log, ipstr, input, ret, trail>>
       ELSE IF r.status = "body_error"
       THEN /\ Return("error", "unable to read response body")
            /\ steps' = Append(steps, Step("fetch", "body_error"))
            /\ UNCHANGED <<ipstr, input, ret, trail>>
       ELSE /\ ipstr' = TrimSpace(r.body)
            /\ IF ~ParseIP(TrimSpace(r.body))
               THEN /\ Return("error", "unable to parse address")
                    /\ steps' = Append(steps, Step("fetch", "invalid"))
                    /\ UNCHANGED <<input, ret, trail>>
               ELSE /\ pc' = "read"
                    /\ steps' = Append(steps, Step("fetch", "ok"))
                    /\ input' = NewListInput(hostedZoneId)
                    /\ ret' = NoRet
                    /\ trail' = << >>
                    /\ UNCHANGED log
    /\ UNCHANGED <<config, since, http, env, cycles, currentRecordValue, currentRecordTTL,
                   changeInput, waitErr, waited, delay, confirms, metrics,
                   accepted,
                   sawSlot, startUpdates, prev>>

\* The address request and the validation of its body.  r is what the
\* endpoint (or the transport) answers; a request under a cancelled context
\* fails.
Fetch(r) ==
    /\ pc = "fetch"
    /\ r.status = "body" => ~ctxDone
    /\ resp' = r
    /\ IF r.status = "request_error"
       THEN /\ Return("error", "unable to fetch current address")
            /\ steps' = Append(steps, Step("fetch", "request_error"))
            /\ UNCHANGED <<ipstr, input, ret, trail>>
       ELSE IF r.status = "body_error"
       THEN /\ Return("error", "unable to read response body")
            /\ steps' = Append(steps, Step("fetch", "body_error"))
            /\ UNCHANGED <<ipstr, input, ret, trail>>
       ELSE /\ ipstr' = TrimSpace(r.body)
            /\ IF ~ParseIP(TrimSpace(r.body))
               THEN /\ Return("error", "unable to parse address")
                    /\ steps' = Append(steps, Step("fetch", "invalid"))
                    /\ UNCHANGED <<input, ret, trail>>
               ELSE /\ pc' = "read"
                    /\ steps' = Append(steps, Step("fetch", "ok"))
                    /\ input' = NewListInput(hostedZoneId)
                    /\ ret' = NoRet
                    /\ trail' = << >>
                    /\ UNCHANGED log
    /\ UNCHANGED <<config, since, http, env, cycles, currentRecordValue, currentRecordTTL,
                   changeInput, waitErr, waited, delay, confirms, metrics,
                   accepted,
                   sawSlot, startUpdates, prev>>

Responses ==
    { [status |-> "request_error", body |-> << >>],
      [status |-> "body_error", body |-> << >>] }
    \cup { [status |-> "body", body |-> b] : b \in Bodies }

(***************************************************************************)
(* getCurrentRecordValue (src/main.go 432-454), one list call per step,    *)
(* and what updateRoute53 does with its result.                            *)
(***************************************************************************)

\* A variant that takes a record set by its name alone.
Matches_NameOnly(page, name) ==
    { i \in DOMAIN page.ResourceRecordSets :
        page.ResourceRecordSets[i].Name = name \o "." }

\* The record sets of a page that the loop at 441-445 takes for the record.
Matches(page, name) ==
    { i \in DOMAIN page.ResourceRecordSets :
        /\ page.ResourceRecordSets[i].Name = name \o "."
        /\ page.ResourceRecordSets[i].Type = "A" }

FirstMatch(page, name) ==
    CHOOSE i \in Matches(page, name) : \A j \in Matches(page, name) : i <= j

\* *recordSet.ResourceRecords[0].Value and *recordSet.TTL panic on a record
\* set without resource records or without a TTL.
Panics(rs) == rs.ResourceRecords = << >> \/ rs.TTL = NilTTL

\* A variant that asks for the same page again.
NextInput_SameRequest(in, page) == in

\* The request for the next page (449-451).
NextInput(in, page) ==
    [in EXCEPT !.StartRecordName = page.NextRecordName,
               !.StartRecordType = page.NextRecordType,
               !.StartRecordIdentifier = page.NextRecordIdentifier]

\* A variant that compares the value only, not the TTL.
AfterRead_ValueOnly(value, ttl, err) ==
    /\ sawSlot' = IF err = Nil THEN Some(HostRecord(zone, dnsName)) ELSE sawSlot
    /\ IF err # Nil
       THEN /\ Return("error", "unable to get current record value")
            /\ UNCHANGED <<currentRecordValue, currentRecordTTL>>
       ELSE /\ currentRecordValue' = value
            /\ currentRecordTTL' = ttl
            /\ IF value = ipstr
               THEN Return("info", "address has not changed")
               ELSE /\ pc' = "write"
                    /\ UNCHANGED log
    /\ UNCHANGED confirms

\* A variant that does not look at the error of the read.
AfterRead_ErrIgnored(value, ttl, err) ==
    /\ sawSlot' = IF err = Nil THEN Some(HostRecord(zone, dnsName)) ELSE sawSlot
    /\ currentRecordValue' = value
    /\ currentRecordTTL' = ttl
    /\ IF value = ipstr /\ ttl = dnsTTL
       THEN Return("info", "address has not changed")
       ELSE /\ pc' = "write"
            /\ UNCHANGED log
    /\ UNCHANGED confirms

\* A variant that compares with what the previous cycle had read.
AfterRead_Remembered(value, ttl, err) ==
    /\ sawSlot' = IF err = Nil THEN Some(HostRecord(zone, dnsName)) ELSE sawSlot
    /\ IF err # Nil
       THEN /\ Return("error", "unable to get current record value")
            /\ UNCHANGED <<currentRecordValue, currentRecordTTL>>
       ELSE LET v == IF prev # None THEN prev[1].addr ELSE value
                t == IF prev # None THEN dnsTTL ELSE ttl IN
            /\ currentRecordValue' = v
            /\ currentRecordTTL' = t
            /\ IF v = ipstr /\ t = dnsTTL
               THEN Return("info", "address has not changed")
               ELSE /\ pc' = "write"
                    /\ UNCHANGED log
    /\ UNCHANGED confirms

\* updateRoute53 after its first read (361-376).
AfterRead(value, ttl, err) ==
    /\ sawSlot' = IF err = Nil THEN Some(HostRecord(zone, dnsName)) ELSE sawSlot
    /\ IF err # Nil
       THEN /\ Return("error", "unable to get current record value")
            /\ UNCHANGED <<currentRecordValue, currentRecordTTL>>
       ELSE /\ currentRecordValue' = value
            /\ currentRecordTTL' = ttl
            /\ IF value = ipstr /\ ttl = dnsTTL
               THEN Return("info", "address has not changed")
               ELSE /\ pc' = "write"
                    /\ UNCHANGED log
    /\ UNCHANGED confirms

\* A variant that writes again when the record read back is not the one
\* that was written.
AfterConfirm_Resubmits(value, ttl, err) ==
    /\ IF err # Nil
       THEN /\ Return("error", "unable to get updated record value")
            /\ UNCHANGED confirms
       ELSE /\ updatedRecordValue' = value
            /\ updatedRecordTTL' = ttl
            /\ IF value = ipstr /\ ttl = dnsTTL
               THEN Return("info", "change propagated")
               ELSE /\ pc' = "write"
                    /\ UNCHANGED log
    /\ UNCHANGED <<currentRecordValue, currentRecordTTL, sawSlot>>

\* updateRoute53 after the confirm read (420-429).
AfterConfirm(value, ttl, err) ==
    /\ IF err # Nil
       THEN /\ Return("error", "unable to get updated record value")
            /\ UNCHANGED confirms
       ELSE /\ updatedRecordValue' = value
            /\ updatedRecordTTL' = ttl
            /\ Return("info", "change propagated")
    /\ UNCHANGED <<currentRecordValue, currentRecordTTL, sawSlot>>

\* getCurrentRecordValue returns (value, ttl, err) to its caller.
ReadReturns(value, ttl, err) ==
    /\ ret' = [value |-> value, ttl |-> ttl, err |-> err]
    /\ IF pc = "read"
       THEN AfterRead(value, ttl, err)
       ELSE AfterConfirm(value, ttl, err)

\* A variant that leaves the loop on an error and reports no record.
ListFails_AsAbsent == ReadReturns(<< >>, 0, Nil)

\* The list call failed (438-440).
ListFails == ReadReturns(<< >>, 0, "error")

\* One svc.ListResourceRecordSets call of the read and what follows it up to
\* the next outgoing call.  A call under a cancelled context fails.
List(ok) ==
    /\ pc \in {"read", "confirm"}
    /\ ok => ~ctxDone
    /\ IF ~ok
       THEN /\ ListFails
            /\ trail' = Append(trail, [in |-> input, page |-> None])
            /\ steps' = Append(steps, Step("list", "error"))
            /\ UNCHANGED input
       ELSE LET page == ListPage(zone, input) IN
            /\ trail' = Append(trail, [in |-> input, page |-> Some(page)])
            /\ IF Matches(page, dnsName) # {}
               THEN LET rs == page.ResourceRecordSets[FirstMatch(page, dnsName)] IN
                    IF Panics(rs)
                    THEN /\ pc' = "crashed"
                         /\ steps' = Append(steps, Step("list", "panic"))
                         /\ UNCHANGED <<input, ret, currentRecordValue,
                                        currentRecordTTL, confirms, log, sawSlot>>
                    ELSE /\ ReadReturns(rs.ResourceRecords[1].Value,
                                        Uint64(rs.TTL), Nil)
                         /\ steps' = Append(steps, Step("list", "found"))
                         /\ UNCHANGED input
               ELSE IF ~page.IsTruncated
               THEN /\ ReadReturns(<< >>, 0, Nil)
                    /\ steps' = Append(steps, Step("list", "absent"))
                    /\ UNCHANGED input
               ELSE /\ input' = NextInput(input, page)
                    /\ steps' = Append(steps, Step("list", "more"))
                    /\ UNCHANGED <<pc, ret, currentRecordValue, currentRecordTTL,
                                   confirms, log, sawSlot>>
    /\ UNCHANGED <<config, since, http, env, cycles, resp, ipstr, changeInput, waitErr,
                   waited, delay, metrics, accepted, startUpdates, prev>>

(***************************************************************************)
(* The change and the wait for its propagation (src/main.go 378-417).      *)
(***************************************************************************)

\* A variant that sends the TTL that was read instead of the configured one.
ChangeRequest_ReadTTL(name, ttl, value, zoneId) ==
    [HostedZoneId |-> "/hostedzone/" \o zoneId,
     Changes |-> << [Action |-> "UPSERT",
                     Name |-> name,
                     Type |-> "A",
                     TTL |-> Int64(currentRecordTTL),
                     ResourceRecords |-> << [Value |-> value] >>] >>]

\* The request built at 379-394.
ChangeRequest(name, ttl, value, zoneId) ==
    [HostedZoneId |-> "/hostedzone/" \o zoneId,
     Changes |-> << [Action |-> "UPSERT",
                     Name |-> name,
                     Type |-> "A",
                     TTL |-> Int64(ttl),
                     ResourceRecords |-> << [Value |-> value] >>] >>]

\* The provider takes an A record only with an IPv4 value.
Acceptable(req) ==
    \A i \in DOMAIN req.Changes :
        \A j \in DOMAIN req.Changes[i].ResourceRecords :
            ParseIPv4(req.Changes[i].ResourceRecords[j].Value)

\* The provider refuses a plain record set where record sets with set
\* identifiers exist for the same name and type.
Conflicts(z, req) ==
    \E i \in DOMAIN req.Changes : \E k \in RoutedSlots :
        /\ z[k] # NoRecord
        /\ ZoneKeys[k].Name = Fqdn(req.Changes[i].Name)
        /\ ZoneKeys[k].Type = req.Changes[i].Type

\* The zone after the provider has applied the changes of a request from
\* change i on: an upsert creates or replaces the record set of its key.
RECURSIVE Apply(_, _, _)
Apply(z, changes, i) ==
    IF i > Len(changes) THEN z
    ELSE LET c == changes[i]
             k == CHOOSE k \in ZoneSlots :
                      ZoneKeys[k] = [Name |-> Fqdn(c.Name), Type |-> c.Type,
                                     SetIdentifier |-> Nil]
         IN  Apply([z EXCEPT ![k] = RecordSet(k, c.TTL, c.ResourceRecords)],
                   changes, i + 1)

\* A variant that counts the update before it looks at the error.
ChangeFails_Counted ==
    /\ Return("error", "unable to change record sets")
    /\ updatesTotal' = updatesTotal + 1

\* A variant that sends a rejected change again.
ChangeFails_Retried ==
    /\ log' = Event("error", "unable to change record sets")
    /\ pc' = "write"
    /\ UNCHANGED updatesTotal

\* The change call failed (396-399).
ChangeFails ==
    /\ Return("error", "unable to change record sets")
    /\ UNCHANGED updatesTotal

\* A variant that reads the record back before it waits for the change.
ChangeSucceeds_ConfirmFirst ==
    /\ updatesTotal' = updatesTotal + 1
    /\ log' = Event("info", "change submitted")
    /\ pc' = "confirm"

\* The change call succeeded (401-403).
ChangeSucceeds ==
    /\ updatesTotal' = updatesTotal + 1
    /\ log' = Event("info", "change submitted")
    /\ pc' = "wait"

\* svc.ChangeResourceRecordSets and what follows it (395-403).
Change(ok) ==
    /\ pc = "write"
    /\ LET req == ChangeRequest(dnsName, dnsTTL, ipstr, hostedZoneId) IN
       /\ ok => ~ctxDone /\ Acceptable(req) /\ ~Conflicts(zone, req)
       /\ changeInput' = Some(req)
       /\ IF ~ok
          THEN /\ ChangeFails
               /\ steps' = Append(steps, Step("change", "error"))
               /\ UNCHANGED <<zone, accepted>>
          ELSE /\ zone' = Apply(zone, req.Changes, 1)
               /\ accepted' = accepted + 1
               /\ steps' = Append(steps, Step("change", "ok"))
               /\ ChangeSucceeds
    /\ UNCHANGED <<config, since, http, ctxDone, timer, timerDur, extEdits, cycles, resp,
                   ipstr, reads,
                   waitErr, waited, delay, confirms, updateDuration, trail, sawSlot,
                   startUpdates, prev>>

\* What waiter.Wait can return: nil once the change is INSYNC, or an error.
WaitResults ==
    {Nil, "exceeded max wait time", "get change failed", "context canceled"}

\* What one status poll of the waiter (GetChange) can answer.
GetChangeAnswers == {"INSYNC", "PENDING", "error"}

\* A variant that reads the record back whatever the wait returned.
WaitReturns_ConfirmAnyway(res) ==
    /\ waitErr' = res
    /\ steps' = Append(steps, Step("wait", IF res = Nil THEN "insync" ELSE res))
    /\ pc' = "confirm"
    /\ input' = NewListInput(hostedZoneId)
    /\ ret' = NoRet
    /\ trail' = << >>

\* waiter.Wait returns res to updateRoute53 (410).
WaitReturns(res) ==
    /\ waitErr' = res
    /\ steps' = Append(steps, Step("wait", IF res = Nil THEN "insync" ELSE res))
    /\ IF res = Nil
       THEN /\ pc' = "confirm"
            /\ input' = NewListInput(hostedZoneId)
            /\ ret' = NoRet
            /\ trail' = << >>
       ELSE /\ pc' = "waiterr"
            /\ UNCHANGED <<input, ret, trail>>

\* The waiter of route53.NewResourceRecordSetsChangedWaiter(svc) (406) is
\* made without options: it keeps the delays the SDK gives it, 30 seconds at
\* least and 120 seconds at most.
WaiterMinDelay == 30
WaiterMaxDelay == 120

RECURSIVE Pow2(_)
Pow2(n) == IF n = 0 THEN 1 ELSE 2 * Pow2(n - 1)

\* The delays the waiter may sleep after its attempt-th status poll: the
\* minimal delay after the first poll, and from then on a random delay from
\* the minimal one up to, but not including, the minimal one doubled with
\* every poll and capped by the maximal one; the model takes both ends.
ComputeDelay(attempt) ==
    LET ceiling == IF WaiterMinDelay * Pow2(attempt - 1) > WaiterMaxDelay
                   THEN WaiterMaxDelay
                   ELSE WaiterMinDelay * Pow2(attempt - 1)
    IN  IF ceiling = WaiterMinDelay THEN {WaiterMinDelay}
        ELSE {WaiterMinDelay, ceiling - 1}

\* A variant of the waiter without a maximum wait.
Expired_Never(w) == FALSE

\* The maximum wait handed to the waiter (5*time.Minute, 410) is used up
\* after w polls that answered "PENDING".
Expired(w) == w >= MaxWait

\* A variant of the wait that is not bound to the context of the loop: its
\* polls are answered after the signal as before it.
Wait_Unbound(ans) ==
    /\ pc = "wait"
    /\ IF ans = "INSYNC"
       THEN /\ WaitReturns(Nil)
            /\ UNCHANGED <<waited, delay>>
       ELSE IF ans = "error"
       THEN /\ WaitReturns(IF ctxDone THEN "context canceled"
                                      ELSE "get change failed")
            /\ UNCHANGED <<waited, delay>>
       ELSE /\ waited' = waited + 1
            /\ IF Expired(waited + 1)
               THEN /\ WaitReturns("exceeded max wait time")
                    /\ UNCHANGED delay
               ELSE /\ \E d \in ComputeDelay(waited + 1) : delay' = d
                    /\ UNCHANGED <<pc, waitErr, steps, input, ret, trail>>
    /\ UNCHANGED <<config, since, http, env, cycles, resp, ipstr, currentRecordValue,
                   currentRecordTTL, changeInput, confirms, log, metrics,
                   accepted, sawSlot, startUpdates, prev>>

\* waiter.Wait(ctx, waitInput, 5*time.Minute), one status poll per step: it
\* returns nil on "INSYNC", the error on a failed poll (every poll under a
\* cancelled context fails), and on "PENDING" it polls again after a delay
\* of its own choice unless the maximum wait is used up.
Wait(ans) ==
    /\ pc = "wait"
    /\ ans # "error" => ~ctxDone
    /\ IF ans = "INSYNC"
       THEN /\ WaitReturns(Nil)
            /\ UNCHANGED <<waited, delay>>
       ELSE IF ans = "error"
       THEN /\ WaitReturns(IF ctxDone THEN "context canceled"
                                      ELSE "get change failed")
            /\ UNCHANGED <<waited, delay>>
       ELSE /\ waited' = waited + 1
            /\ IF Expired(waited + 1)
               THEN /\ WaitReturns("exceeded max wait time")
                    /\ UNCHANGED delay
               ELSE /\ \E d \in ComputeDelay(waited + 1) : delay' = d
                    /\ UNCHANGED <<pc, waitErr, steps, input, ret, trail>>
    /\ UNCHANGED <<config, since, http, env, cycles, resp, ipstr, currentRecordValue,
                   currentRecordTTL, changeInput, confirms, log, metrics,
                   accepted, sawSlot, startUpdates, prev>>

\* The error branch of the wait (411-416) reads ctx.Err().
WaitFailed ==
    /\ pc = "waiterr"
    /\ IF ctxDone
       THEN Return("warn", "shutting down, stopping INSYNC poll")
       ELSE Return("error", "failed waiting for change to propagate")
    /\ UNCHANGED <<config, since, http, env, cycles, locals, metrics, history>>

(***************************************************************************)
(* The environment.                                                        *)
(***************************************************************************)

(***************************************************************************)
(* GET /healthz (src/main.go 538-542) on net/http's ResponseWriter.        *)
(***************************************************************************)
\* The writer handed to a handler: nothing written, no header set.
NewResponseWriter ==
    [wroteHeader |-> FALSE, status |-> 0, handlerHeader |-> Nil,
     header |-> Nil, body |-> ""]

\* w.WriteHeader(code): the status is fixed and the header of the response
\* is the handler's header as it is now.
WriteHeader(w, code) ==
    IF w.wroteHeader THEN w
    ELSE [w EXCEPT !.wroteHeader = TRUE, !.status = code,
                   !.header = w.handlerHeader]

\* w.Header().Set("Content-Type", v): the handler's header changes.
HeaderSet(w, v) == [w EXCEPT !.handlerHeader = v]

\* http.DetectContentType for a body of plain text.
DetectContentType(text) == "text/plain; charset=utf-8"

\* fmt.Fprint(w, text): w.Write.  The first write sends the header, with
\* status 200 if none was written and with a Content-Type found from the
\* body if the header of the response has none.
Fprint(w, text) ==
    LET w1 == WriteHeader(w, 200) IN
    [w1 EXCEPT !.header = IF w1.body = "" /\ w1.header = Nil /\ text # ""
                          THEN DetectContentType(text) ELSE w1.header,
               !.body = w1.body \o text]

\* The handler of /healthz (538-542).
HealthzHandler(w) ==
    Fprint(HeaderSet(WriteHeader(w, 200), "text/plain"), "200 OK")

\* What the client of a request gets.
Response(w) == [status |-> w.status, contentType |-> w.header, body |-> w.body]

\* A GET /healthz is served.
Healthz ==
    /\ server = "listening"
    /\ pc \notin {"exited", "crashed", "fatal", "usage"}
    /\ answer' = Some(Response(HealthzHandler(NewResponseWriter)))
    /\ UNCHANGED <<config, since, server, scraped, serverLog, env, pc, cycles, locals, log, metrics,
                   history>>

\* A variant of the handler that starts the counters again once it has
\* exposed them.
Metrics_Resets ==
    /\ server = "listening"
    /\ pc \notin {"exited", "crashed", "fatal", "usage"}
    /\ scraped' = Some([updates |-> updatesTotal, duration |-> updateDuration])
    /\ updatesTotal' = 0
    /\ updateDuration' = 0
    /\ UNCHANGED <<config, since, server, answer, serverLog, env, pc, cycles, locals,
                   log, history>>

\* A GET /metrics is served by promhttp.Handler() (543): the registered
\* counters (320-323) are gathered and written, and are not changed.
Metrics ==
    /\ server = "listening"
    /\ pc \notin {"exited", "crashed", "fatal", "usage"}
    /\ scraped' = Some([updates |-> updatesTotal, duration |-> updateDuration])
    /\ UNCHANGED <<config, since, server, answer, serverLog, env, pc, cycles, locals,
                   log, metrics, history>>

\* The goroutine of 556-563 has received from ctx.Done() and calls
\* server.Shutdown under a context of its own, context.WithTimeout(
\* context.Background(), 5*time.Second): the listener is closed and the
\* connections in use are waited for.
ServerShutdown ==
    /\ pc \notin {"exited", "crashed"}
    /\ ctxDone
    /\ server = "listening"
    /\ server' = "draining"
    /\ UNCHANGED <<config, since, answer, scraped, serverLog, env, pc, cycles, locals, log, metrics,
                   history>>

\* server.Shutdown returns: nil once every connection is idle and closed, or
\* the error of its context when the 5 seconds have passed, which is logged
\* (560-562).
ShutdownReturns(expired) ==
    /\ pc \notin {"exited", "crashed"}
    /\ server = "draining"
    /\ IF expired
       THEN /\ server' = "expired"
            /\ serverLog' = Event("error", "server shutdown error")
       ELSE /\ server' = "closed"
            /\ UNCHANGED serverLog
    /\ UNCHANGED <<config, since, answer, scraped, env, pc, cycles, locals, log, metrics, history>>

\* Time passes while a cycle runs (between time.Now() at 577 and
\* time.Since(start) at 583).
Tick ==
    /\ pc \in {"fetch", "read", "write", "wait", "waiterr", "confirm", "record"}
    /\ since < MaxElapsed
    /\ since' = since + 1
    /\ UNCHANGED <<config, http, env, pc, cycles, locals, log, metrics, history>>

\* SIGINT or SIGTERM: the context is cancelled (521).
Signal ==
    /\ pc \notin {"exited", "crashed"}
    /\ ~ctxDone
    /\ ctxDone' = TRUE
    /\ UNCHANGED <<config, since, http, zone, timer, timerDur, extEdits, pc, cycles, locals,
                   log, metrics, history>>

\* The duration the timer was set to has passed.
TimerFires ==
    /\ timer = "armed"
    /\ pc = "select"
    /\ timer' = "ready"
    /\ UNCHANGED <<config, since, http, zone, ctxDone, timerDur, extEdits, pc, cycles,
                   locals, log, metrics, history>>

\* Another actor edits or deletes the record.
ExternalEdit(rs) ==
    /\ pc \notin {"exited", "crashed"}
    /\ extEdits < MaxExternal
    /\ rs # zone[TargetSlot]
    /\ Consistent([zone EXCEPT ![TargetSlot] = rs])
    /\ zone' = [zone EXCEPT ![TargetSlot] = rs]
    /\ extEdits' = extEdits + 1
    /\ UNCHANGED <<config, since, http, ctxDone, timer, timerDur, pc, cycles, locals, log,
                   metrics, history>>

Next ==
    \/ StartCycle
    \/ Shutdown
    \/ Record
    \/ \E r \in Responses : Fetch(r)
    \/ \E ok \in BOOLEAN : List(ok)
    \/ \E ok \in BOOLEAN : Change(ok)
    \/ \E ans \in GetChangeAnswers : Wait(ans)
    \/ WaitFailed
    \/ Signal
    \/ TimerFires
    \/ Tick
    \/ \E rs \in ExternalChoices : ExternalEdit(rs)

Spec == Init /\ [][Next]_vars

\* The main goroutine runs when it can, and a timer that has been set fires.
FairSpec ==
    /\ Spec
    /\ WF_vars(StartCycle \/ Shutdown)
    /\ WF_vars(Record)
    /\ WF_vars(TimerFires)

\* One step of a running cycle.  Every call of a cycle returns: the address
\* request is bound to ctx and to the client's timeout of 10 seconds (314,
\* 329-335), the calls of the SDK are bound to ctx (360, 395, 419) and the
\* wait to ctx and to its maximum of 5 minutes (410).
CycleStep ==
    \/ \E r \in Responses : Fetch(r)
    \/ \E ok \in BOOLEAN : List(ok)
    \/ \E ok \in BOOLEAN : Change(ok)
    \/ \E ans \in GetChangeAnswers : Wait(ans)
    \/ WaitFailed

\* The main goroutine runs when it can, a timer that has been set fires, and
\* the calls of a cycle return.  A select with several ready cases picks one
\* of them at random (568-588): the case of ctx.Done(), ready in every select
\* once the signal has arrived, is not passed over for ever.
LiveSpec ==
    /\ FairSpec
    /\ WF_vars(CycleStep)
    /\ SF_vars(Shutdown)

(***************************************************************************)
(* The loop together with the goroutines of the server (536-563).  These   *)
(* read and write the variables of http only, which no step of the loop    *)
(* reads; they are explored with the loop from the zones that hold at most *)
(* the record of the host name.                                            *)
(***************************************************************************)
ServeZones == { z \in Zones : \A k \in ZoneSlots \ {TargetSlot} : z[k] = NoRecord }

InitServe ==
    /\ Init
    /\ zone \in ServeZones
    /\ dnsName \notin Qualified
    /\ environ.DNS_TTL = << >>

NextServe ==
    \/ Next
    \/ Healthz
    \/ Metrics
    \/ ServerShutdown
    \/ \E expired \in BOOLEAN : ShutdownReturns(expired)

SpecServe == InitServe /\ [][NextServe]_vars

(***************************************************************************)
(* main: startup (src/main.go 456-566), one step per setting, over a       *)
(* larger set of command lines and environments.                           *)
(***************************************************************************)
\* logger.Fatal().Msg(msg): the event is written and the process exits.
Fatal(msg) ==
    /\ log' = Event("fatal", msg)
    /\ pc' = "fatal"

\* The process has been started; nothing of main has run.
InitConfig ==
    /\ environ \in Environs
    /\ args \in {None} \cup { Some(t) : t \in PortTexts }
    /\ dnsName = ""
    /\ dnsTTL = DnsTTLDefault
    /\ hostedZoneId = ""
    /\ sleepPeriod = SleepPeriodDefault
    /\ checkIPURL = CheckIPURLDefault
    /\ port = PortDefault
    /\ svc = FALSE
    /\ server = "none"
    /\ answer = None
    /\ scraped = None
    /\ serverLog = NoEvent
    /\ zone = [k \in ZoneSlots |-> NoRecord]
    /\ ctxDone = FALSE
    /\ timer = "idle"
    /\ timerDur = 0
    /\ extEdits = 0
    /\ pc = "flags"
    /\ cycles = 0
    /\ since = 0
    /\ resp = NoResp
    /\ ipstr = << >>
    /\ input = NewListInput("")
    /\ ret = NoRet
    /\ currentRecordValue = << >>
    /\ currentRecordTTL = 0
    /\ changeInput = None
    /\ waitErr = Nil
    /\ waited = 0
    /\ delay = 0
    /\ updatedRecordValue = << >>
    /\ updatedRecordTTL = 0
    /\ log = NoEvent
    /\ updatesTotal = 0
    /\ updateDuration = 0
    /\ accepted = 0
    /\ trail = << >>
    /\ steps = << >>
    /\ sawSlot = None
    /\ startUpdates = 0
    /\ prev = None

\* What startup leaves alone.
loop == <<http, env, cycles, since, locals, metrics, history>>

\* flag.Parse and the test of the port (459-471).  A value of -port that is
\* not a number ends the process in flag.Parse (flag.ExitOnError).  The
\* values of the model carry no base prefix, for which flag.Uint's
\* ParseUint(s, 0, 64) reads decimal.
ParseFlags ==
    /\ pc = "flags"
    /\ LET r == IF args = None THEN [ok |-> TRUE, val |-> PortDefault]
                ELSE ParseUint(args[1], MaxUint64Digits)
       IN  IF ~r.ok
           THEN /\ pc' = "usage"
                /\ UNCHANGED <<port, log>>
           ELSE /\ port' = r.val
                /\ IF r.val < 1 \/ r.val > 65535
                   THEN Fatal("invalid port number")
                   ELSE /\ pc' = "DNS_NAME"
                        /\ UNCHANGED log
    /\ UNCHANGED <<dnsName, dnsTTL, hostedZoneId, sleepPeriod, checkIPURL,
                   environ, args, svc, loop>>

\* DNS_NAME (473-476).
GetDnsName ==
    /\ pc = "DNS_NAME"
    /\ dnsName' = environ.DNS_NAME
    /\ IF environ.DNS_NAME = ""
       THEN Fatal("missing DNS_NAME environment variable")
       ELSE /\ pc' = "DNS_TTL"
            /\ UNCHANGED log
    /\ UNCHANGED <<dnsTTL, hostedZoneId, sleepPeriod, checkIPURL, port, environ,
                   args, svc, loop>>

\* A variant that goes on with the default when DNS_TTL does not parse.
GetDnsTTL_ErrorIgnored ==
    /\ pc = "DNS_TTL"
    /\ LET r == ParseUint(environ.DNS_TTL, MaxUint32Digits) IN
       dnsTTL' = IF r.ok THEN r.val ELSE dnsTTL
    /\ pc' = "HOSTED_ZONE_ID"
    /\ UNCHANGED <<dnsName, hostedZoneId, sleepPeriod, checkIPURL, port, environ,
                   args, svc, log, loop>>

\* DNS_TTL (478-484).  The value ParseUint returns along with an error is
\* not used: the process exits.
GetDnsTTL ==
    /\ pc = "DNS_TTL"
    /\ IF environ.DNS_TTL = << >>
       THEN /\ pc' = "HOSTED_ZONE_ID"
            /\ UNCHANGED <<dnsTTL, log>>
       ELSE LET r == ParseUint(environ.DNS_TTL, MaxUint32Digits) IN
            /\ dnsTTL' = r.val
            /\ IF ~r.ok
               THEN Fatal("invalid DNS_TTL environment variable")
               ELSE /\ pc' = "HOSTED_ZONE_ID"
                    /\ UNCHANGED log
    /\ UNCHANGED <<dnsName, hostedZoneId, sleepPeriod, checkIPURL, port, environ,
                   args, svc, loop>>

\* HOSTED_ZONE_ID (486-489).
GetHostedZoneId ==
    /\ pc = "HOSTED_ZONE_ID"
    /\ hostedZoneId' = environ.HOSTED_ZONE_ID
    /\ IF environ.HOSTED_ZONE_ID = ""
       THEN Fatal("missing HOSTED_ZONE_ID environment variable")
       ELSE /\ pc' = "CHECK_IP"
            /\ UNCHANGED log
    /\ UNCHANGED <<dnsName, dnsTTL, sleepPeriod, checkIPURL, port, environ, args,
                   svc, loop>>

\* A variant that takes the default for every CHECK_IP.
GetCheckIP_DefaultKept ==
    /\ pc = "CHECK_IP"
    /\ IF environ.CHECK_IP # << >> /\ ~UrlParse(environ.CHECK_IP)
       THEN Fatal("invalid CHECK_IP environment variable")
       ELSE /\ pc' = "SLEEP_PERIOD"
            /\ UNCHANGED log
    /\ UNCHANGED <<dnsName, dnsTTL, hostedZoneId, sleepPeriod, checkIPURL, port,
                   environ, args, svc, loop>>

\* CHECK_IP (491-498).
GetCheckIP ==
    /\ pc = "CHECK_IP"
    /\ IF environ.CHECK_IP = << >>
       THEN /\ pc' = "SLEEP_PERIOD"
            /\ UNCHANGED <<checkIPURL, log>>
       ELSE IF ~UrlParse(environ.CHECK_IP)
       THEN /\ Fatal("invalid CHECK_IP environment variable")
            /\ UNCHANGED checkIPURL
       ELSE /\ checkIPURL' = environ.CHECK_IP
            /\ pc' = "SLEEP_PERIOD"
            /\ UNCHANGED log
    /\ UNCHANGED <<dnsName, dnsTTL, hostedZoneId, sleepPeriod, port, environ,
                   args, svc, loop>>

\* SLEEP_PERIOD (500-506).
GetSleepPeriod ==
    /\ pc = "SLEEP_PERIOD"
    /\ IF environ.SLEEP_PERIOD = << >>
       THEN /\ pc' = "announce"
            /\ UNCHANGED <<sleepPeriod, log>>
       ELSE LET r == ParseDuration(environ.SLEEP_PERIOD) IN
            /\ sleepPeriod' = r.val
            /\ IF ~r.ok
               THEN Fatal("invalid SLEEP_PERIOD environment variable")
               ELSE /\ pc' = "announce"
                    /\ UNCHANGED log
    /\ UNCHANGED <<dnsName, dnsTTL, hostedZoneId, checkIPURL, port, environ,
                   args, svc, loop>>

\* The startup message and the context of the signals (513-522).
Announce ==
    /\ pc = "announce"
    /\ log' = Event("info", "starting route53-updater...")
    /\ pc' = "aws"
    /\ UNCHANGED <<config, loop>>

\* config.LoadDefaultConfig and route53.NewFromConfig (525-534).
LoadConfig(ok) ==
    /\ pc = "aws"
    /\ IF ok
       THEN /\ svc' = TRUE
            /\ pc' = "serve"
            /\ UNCHANGED log
       ELSE /\ Fatal("unable to load aws configuration")
            /\ UNCHANGED svc
    /\ UNCHANGED <<dnsName, dnsTTL, hostedZoneId, sleepPeriod, checkIPURL, port,
                   environ, args, loop>>

\* The server is started and the timer of the loop is created (536-566).
StartServer ==
    /\ pc = "serve"
    /\ server' = "listening"
    /\ timer' = "armed"
    /\ timerDur' = InitialDelay
    /\ pc' = "select"
    /\ UNCHANGED <<config, since, answer, scraped, serverLog, zone, ctxDone, extEdits, cycles,
                   locals, log, metrics, history>>

NextConfig ==
    \/ ParseFlags
    \/ GetDnsName
    \/ GetDnsTTL
    \/ GetHostedZoneId
    \/ GetCheckIP
    \/ GetSleepPeriod
    \/ Announce
    \/ \E ok \in BOOLEAN : LoadConfig(ok)
    \/ StartServer

SpecConfig == InitConfig /\ [][NextConfig]_vars

(***************************************************************************)
(* The validation of the response body on its own: one address request of  *)
(* a cycle, over a larger set of bodies.                                   *)
(***************************************************************************)
ParseFields ==
    { <<"0">>, <<"1">>, <<"2", "5", "5">>, <<"2", "5", "6">>, <<"0", "1">>,
      <<"a">>, << >> }

ParseSeps == {".", ":"}

ParseTexts ==
    { f1 \o <<s1>> \o f2 \o <<s2>> \o f3 \o <<s3>> \o f4 :
        f1 \in ParseFields, f2 \in ParseFields, f3 \in ParseFields,
        f4 \in ParseFields, s1 \in ParseSeps, s2 \in ParseSeps, s3 \in ParseSeps }
    \cup Bodies
    \cup { <<" ">> \o IP1 \o <<"\r", "\n">>,              \* " 1.2.3.4\r\n"
           <<"1", ".", "2", ".", "3">>,                    \* "1.2.3"
           IP1 \o <<".", "5">>,                            \* "1.2.3.4.5"
           <<"1", " ", ".", "2", ".", "3", ".", "4">>,     \* "1 .2.3.4"
           <<":", ":">>,                                   \* "::"
           <<":", ":", "f", "f", "f", "f", ":">> \o IP1,   \* "::ffff:1.2.3.4"
           <<"f", "e", "8", "0", ":", ":", "1", "%", "e">>, \* "fe80::1%e"
           <<"1", "2", "3", "4">> }                        \* "1234"

InitParse ==
    /\ environ = [DNS_NAME |-> "home.example.com", DNS_TTL |-> << >>,
                  HOSTED_ZONE_ID |-> "ZXXXXXXXXX", CHECK_IP |-> << >>,
                  SLEEP_PERIOD |-> << >>]
    /\ args = None
    /\ dnsName = "home.example.com"
    /\ dnsTTL = 300
    /\ hostedZoneId \in HostedZoneIds
    /\ sleepPeriod \in SleepPeriods
    /\ checkIPURL = CheckIPURLDefault
    /\ port = PortDefault
    /\ svc = TRUE
    /\ server = "listening"
    /\ answer = None
    /\ scraped = None
    /\ serverLog = NoEvent
    /\ zone = [k \in ZoneSlots |-> NoRecord]
    /\ ctxDone = FALSE
    /\ timer = "idle"
    /\ timerDur = InitialDelay
    /\ extEdits = 0
    /\ pc = "fetch"
    /\ cycles = 1
    /\ since = 0
    /\ resp = NoResp
    /\ ipstr = << >>
    /\ input = NewListInput(hostedZoneId)
    /\ ret = NoRet
    /\ currentRecordValue = << >>
    /\ currentRecordTTL = 0
    /\ changeInput = None
    /\ waitErr = Nil
    /\ waited = 0
    /\ delay = 0
    /\ updatedRecordValue = << >>
    /\ updatedRecordTTL = 0
    /\ log = Event("info", "starting route53-updater...")
    /\ updatesTotal = 0
    /\ updateDuration = 0
    /\ accepted = 0
    /\ trail = << >>
    /\ steps = << >>
    /\ sawSlot = None
    /\ startUpdates = 0
    /\ prev = None

NextParse == \E b \in ParseTexts : Fetch([status |-> "body", body |-> b])

SpecParse == InitParse /\ [][NextParse]_vars

(***************************************************************************)
(* Properties.                                                             *)
(***************************************************************************)

\* The running cycle has made its decision to write or not.
Decided == FirstReadDone /\ pc # "write"

Submitted == changeInput # None

StepsWith(op) == { i \in 1..Len(steps) : steps[i].op = op }

\* C1: a cycle whose observation and record read both succeeded ends without
\* a change request if and only if the address it observed equals the value
\* it read and the configured TTL equals the TTL it read; in every other
\* case it has sent an upsert.
C1_NoOpIffUnchanged ==
    Decided =>
        /\ ~Submitted <=> (currentRecordValue = ipstr /\ currentRecordTTL = dnsTTL)
        /\ Submitted <=> StepsWith("change") # {}
        /\ Submitted => changeInput[1].Changes[1].Action = "UPSERT"

\* A cycle sent an upsert although the address was unchanged: only the TTL
\* differed.
C1_Witness ==
    /\ Decided /\ Submitted
    /\ currentRecordValue = ipstr /\ currentRecordTTL # dnsTTL

\* C2: the change request of a cycle names the zone "/hostedzone/" + zone id
\* and holds exactly one change: an UPSERT of the A record whose name is the
\* host name as configured, whose TTL is the configured TTL and whose one
\* value is the address this cycle observed (the body without its white
\* space).
C2_ChangeRequestShape ==
    Submitted =>
        LET req == changeInput[1] IN
        /\ req.HostedZoneId = "/hostedzone/" \o hostedZoneId
        /\ Len(req.Changes) = 1
        /\ req.Changes[1].Action = "UPSERT"
        /\ req.Changes[1].Type = "A"
        /\ req.Changes[1].Name = dnsName
        /\ req.Changes[1].TTL = dnsTTL
        /\ Len(req.Changes[1].ResourceRecords) = 1
        /\ resp.status = "body"
        /\ \E ws \in {<< >>, <<"\n">>} :
               resp.body = req.Changes[1].ResourceRecords[1].Value \o ws

\* A change request was sent for a body that ended in a newline while the
\* record read had another TTL than the configured one.
C2_Witness ==
    /\ Submitted
    /\ currentRecordTTL # dnsTTL
    /\ currentRecordValue # << >>
    /\ resp.body # ipstr

\* C3: when the zone holds no A record set for the host name, the read
\* returns the empty value and TTL 0 without an error, and the cycle goes on
\* to send an upsert, whatever the observed address and the configured TTL.
C3_AbsentThenUpsert ==
    (FirstReadDone /\ sawSlot = Some(NoRecord)) =>
        /\ currentRecordValue = << >>
        /\ currentRecordTTL = 0
        /\ \E i \in StepsWith("list") :
               steps[i].res = "absent" /\ \A j \in StepsWith("list") : j <= i => steps[j].res # "error"
        /\ pc = "write" \/ Submitted

\* A cycle configured with TTL 0 found no record and sent an upsert.
C3_Witness ==
    /\ FirstReadDone /\ sawSlot = Some(NoRecord)
    /\ dnsTTL = 0
    /\ Submitted

\* A call of the running cycle that makes the cycle fail before writing.
EarlyFailure(i) ==
    \/ steps[i].op = "fetch" /\ steps[i].res # "ok"
    \/ /\ steps[i].op = "list" /\ steps[i].res = "error"
       /\ \A j \in 1..i : steps[j].op # "change"

\* C4: when the address request fails, its body cannot be read or does not
\* validate, or when the record read fails, the cycle ends at once as
\* failed: no further call is made (no change request, no wait, no confirm
\* read) and the update counter keeps its value.
C4_FailsBeforeWriting ==
    \A i \in 1..Len(steps) : EarlyFailure(i) =>
        /\ i = Len(steps)
        /\ pc \in {"record", "select", "exited"}
        /\ ~Submitted
        /\ waitErr = Nil
        /\ StepsWith("change") = {} /\ StepsWith("wait") = {}
        /\ updatesTotal = startUpdates
        /\ pc = "record" => log.level = "error"

\* A cycle ended on a failed list call for a later page.
C4_Witness ==
    /\ pc = "record"
    /\ Len(steps) >= 3
    /\ EarlyFailure(Len(steps))
    /\ steps[Len(steps)].op = "list"

\* Four decimal fields of one to three digits, each at most 255, separated
\* by single dots.
RECURSIVE IsNumber(_, _, _)
IsNumber(s, i, val) ==
    IF i > Len(s) THEN Len(s) \in 1..3 /\ val <= 255
    ELSE s[i] \in Digits /\ IsNumber(s, i + 1, val * 10 + DigitVal(s[i]))

RECURSIVE DotFields(_, _)
DotFields(s, i) ==
    IF i > Len(s) THEN <<SubSeq(s, 1, Len(s))>>
    ELSE IF s[i] = "." THEN <<SubSeq(s, 1, i - 1)>> \o DotFields(Drop(s, i), 1)
    ELSE DotFields(s, i + 1)

DottedQuad(s) ==
    LET fs == DotFields(s, 1) IN
    Len(fs) = 4 /\ \A k \in 1..4 : Len(fs[k]) <= 3 /\ IsNumber(fs[k], 1, 0)

\* C5: the validation accepts the trimmed body exactly when it is a dotted
\* quad with four octets in 0..255.
C5_AcceptsExactlyDottedQuads ==
    steps # << >> => (steps[1].res = "ok" <=> DottedQuad(ipstr))

\* C6: once the provider's record for the host name holds the observed
\* address with the configured TTL, a cycle that observes that address sends
\* no change request.
C6_SettledCycleIsQuiet ==
    Settled => (pc # "write" /\ ~Submitted)

\* C7: two cycles in succession that observe the same address while the
\* provider's record holds it with the configured TTL both send no change
\* request, and the update counter after the second equals its value before
\* the first.
C7_TwoSettledCycles ==
    (prev # None /\ Settled /\ pc # "write" /\ prev[1].addr = ipstr) =>
        /\ ~prev[1].submitted
        /\ ~Submitted
        /\ updatesTotal = prev[1].before

\* C8: the update counter equals the number of change requests the provider
\* accepted; within a cycle it has grown by the accepted requests of that
\* cycle, and by nothing else.
C8_CounterCountsAccepted ==
    /\ updatesTotal = accepted
    /\ updatesTotal = startUpdates
         + Cardinality({ i \in StepsWith("change") : steps[i].res = "ok" })

\* After an accepted change in the first cycle, the second cycle's change
\* request was rejected.
C8_Witness ==
    /\ updatesTotal = 1
    /\ cycles = 2
    /\ steps # << >> /\ steps[Len(steps)] = Step("change", "error")

\* C9: every further list request starts at the markers of the page before
\* it, and the read stops at the first page that holds a matching record
\* set: that page is the last one requested and the read returns its record.
C9_StopsAtFirstMatch ==
    /\ \A i \in 2..Len(trail) :
           /\ trail[i - 1].page # None
           /\ trail[i].in = NextInput(trail[i - 1].in, trail[i - 1].page[1])
    /\ \A k \in 1..Len(trail) :
           (trail[k].page # None /\ Matches(trail[k].page[1], dnsName) # {}) =>
               LET page == trail[k].page[1]
                   rs == page.ResourceRecordSets[FirstMatch(page, dnsName)]
               IN  /\ k = Len(trail)
                   /\ ret.err = Nil
                   /\ rs.ResourceRecords # << >>
                   /\ ret.value = rs.ResourceRecords[1].Value
                   /\ ret.ttl = rs.TTL

\* C10: a failed list call is the last call of its read; the read returns an
\* error and no record value, and the failure is not taken for an absent
\* record.
C10_ListErrorEndsRead ==
    \A i \in 1..Len(trail) : trail[i].page = None =>
        /\ i = Len(trail)
        /\ ret = [value |-> << >>, ttl |-> 0, err |-> "error"]
        /\ pc \in {"record", "select", "exited"}
        /\ pc = "record" => log.level = "error"

\* The list call for a later page failed.
C10_Witness ==
    /\ Len(trail) >= 2
    /\ trail[Len(trail)].page = None
    /\ pc = "record"

\* The record sets the running read has been given so far, in the order the
\* provider listed them.
RECURSIVE SeenFrom(_)
SeenFrom(i) ==
    IF i > Len(trail) THEN << >>
    ELSE (IF trail[i].page = None THEN << >>
          ELSE trail[i].page[1].ResourceRecordSets) \o SeenFrom(i + 1)

Seen == SeenFrom(1)

\* The record sets seen that are named as the configured host name followed
\* by one dot and are of type A.
SeenMatching ==
    { i \in 1..Len(Seen) : Seen[i].Name = dnsName \o "." /\ Seen[i].Type = "A" }

\* C11: a read that returns without error returns the TTL and the first value
\* of the first record set, in the order the provider listed them, whose name
\* is the configured host name followed by one dot and whose type is A; record
\* sets with that name and another type, or with type A and another name, are
\* passed over, further values and later matching record sets are ignored,
\* and the read returns the empty value only when no record set listed
\* matched.
C11_FirstMatchingRecordSet ==
    ret.err = Nil =>
        IF SeenMatching = {}
        THEN ret.value = << >> /\ ret.ttl = 0
        ELSE LET i == CHOOSE i \in SeenMatching : \A j \in SeenMatching : i <= j IN
             /\ ret.ttl = Seen[i].TTL
             /\ ret.value = Seen[i].ResourceRecords[1].Value
             /\ \A j \in 1..(i - 1) :
                    Seen[j].Name # dnsName \o "." \/ Seen[j].Type # "A"

\* A read passed over an A record set of another name and a TXT record set
\* of the host name and returned the first of the two values of the record.
C11_Witness ==
    /\ ret.err = Nil
    /\ Len(Seen) = 3
    /\ Seen[1].Type = "A" /\ Seen[1].Name # dnsName \o "."
    /\ Seen[2].Type = "TXT" /\ Seen[2].Name = dnsName \o "."
    /\ Len(Seen[3].ResourceRecords) = 2
    /\ ret.value = IP1 /\ ret.ttl = 300

\* The last call the running cycle has made, if it made one.
LastStep == IF steps = << >> THEN Step("none", "none") ELSE steps[Len(steps)]

\* C12: the wait for propagation ends although the provider never reports
\* the change as INSYNC: the polls answered "PENDING" never exceed the
\* maximum wait, the poll that uses it up ends the wait with the time-out
\* error, and the cycle then returns to the scheduler; the process has not
\* crashed and is not polling any more.
C12_WaitEndsAtMaxWait ==
    /\ waited <= MaxWait
    /\ waitErr \in WaitResults
    /\ pc = "wait" => waited < MaxWait /\ waitErr = Nil
    /\ waited = MaxWait =>
           /\ waitErr = "exceeded max wait time"
           /\ LastStep = Step("wait", "exceeded max wait time")
           /\ pc \in {"waiterr", "record", "select", "exited"}
           /\ changeInput # None

\* Every poll of a wait answered "PENDING"; the cycle has returned to the
\* scheduler, which waits for the timer or the signal.
C12_Witness ==
    /\ waited = MaxWait
    /\ waitErr = "exceeded max wait time"
    /\ pc = "select"
    /\ ~ctxDone

\* C13: a wait that ended because the context was cancelled is reported as
\* cancelled (warning "shutting down, stopping INSYNC poll"), a wait that
\* ended because the maximum wait was used up is reported as an error, and
\* neither is reported as the other.
C13_CancelledApartFromTimeout ==
    (pc = "record" /\ LastStep.op = "wait") =>
        /\ LastStep.res = "context canceled" =>
               log = Event("warn", "shutting down, stopping INSYNC poll")
        /\ LastStep.res = "exceeded max wait time" =>
               log = Event("error", "failed waiting for change to propagate")

\* C14: once the context is cancelled by the shutdown signal, no cycle
\* starts.
C14_NoCycleAfterSignal == [][ctxDone => cycles' = cycles]_vars

\* The running cycle ended on an error of a call it made: the address
\* request, the validation, a list call, the change call, a status poll, or
\* the maximum wait.
CycleFailed ==
    LastStep.res \in {"request_error", "body_error", "invalid", "error",
                      "get change failed", "exceeded max wait time"}

\* C15: after a cycle that ended on an error, and while no shutdown signal
\* has arrived, the process has not stopped: the scheduler sets the timer
\* again and the next cycle starts.
C15_FailedCycleIsFollowed ==
    \A n \in 1..(MaxCycles - 1) :
        (pc = "record" /\ cycles = n /\ CycleFailed)
            ~> (cycles = n + 1 \/ ctxDone)

\* A cycle started after a cycle that ended on the time-out of the wait.
C15_Witness ==
    /\ cycles = 2 /\ pc = "fetch"
    /\ ~ctxDone
    /\ log = Event("error", "failed waiting for change to propagate")

\* updateRoute53 has been called and main has not yet recorded its return.
InFlight ==
    pc \in {"fetch", "read", "write", "wait", "waiterr", "confirm", "record"}

\* C16: a cycle starts only from the scheduler's select, after the cycle
\* before it has returned and has been recorded; while a cycle is in flight
\* no cycle starts, and a cycle makes at most one change request.
C16_OneCycleAtATime ==
    [][/\ InFlight => cycles' = cycles
       /\ cycles' # cycles =>
              /\ pc = "select" /\ pc' = "fetch"
              /\ cycles' = cycles + 1
              /\ changeInput' = None /\ steps' = << >>
       /\ Cardinality(StepsWith("change")) <= 1]_vars

\* The second cycle is about to send its change request after the first
\* cycle's change was accepted.
C16_Witness ==
    /\ cycles = 2
    /\ pc = "write"
    /\ accepted = 1

\* C17: the first cycle starts on a timer set to zero, and every later cycle
\* on a timer set to the configured interval at the return of the cycle
\* before it.
C17_FirstCycleWithoutDelay ==
    [][cycles' # cycles =>
           /\ timer = "ready"
           /\ timerDur = IF cycles = 0 THEN 0 ELSE sleepPeriod]_vars

\* The first cycle has started, on the timer of duration zero.
C17_Witness ==
    /\ cycles = 1
    /\ pc = "fetch"
    /\ timerDur = 0 /\ sleepPeriod > 0

\* The steps of startup that read the command line and the environment.
ParsingSteps ==
    {"flags", "DNS_NAME", "DNS_TTL", "HOSTED_ZONE_ID", "CHECK_IP", "SLEEP_PERIOD"}

\* The command line or the environment holds a setting that is missing or
\* malformed.
BadSettings ==
    \/ environ.DNS_NAME = ""
    \/ environ.HOSTED_ZONE_ID = ""
    \/ /\ environ.DNS_TTL # << >>
       /\ \E i \in 1..Len(environ.DNS_TTL) : environ.DNS_TTL[i] \notin Digits
    \/ environ.SLEEP_PERIOD \in {<<"1", "0">>, <<"n", "o", "t", "-", "a", "-", "d", "u", "r", "a", "t", "i", "o", "n">>}
    \/ environ.CHECK_IP \in {<<":", "8", "0", "8", "0", "/", "i", "p">>, <<"h", "t", "t", "p", ":", "/", "/", "a", "/", "%", "z", "z">>}
    \/ args \in {Some(<<"0">>), Some(<<"6", "5", "5", "3", "6">>)}

\* C18: with DNS_NAME or HOSTED_ZONE_ID missing, DNS_TTL not an unsigned
\* integer, SLEEP_PERIOD not a duration, CHECK_IP not a URL or the port
\* outside 1..65535, startup does not get past the reading of the settings:
\* it ends there with a fatal event about the configuration, the provider
\* client is not created, the server is not started and no cycle runs.
C18_BadSettingsAreFatal ==
    BadSettings =>
        /\ pc \in ParsingSteps \cup {"fatal", "usage"}
        /\ ~svc
        /\ server = "none"
        /\ timer = "idle"
        /\ cycles = 0
        /\ pc = "fatal" =>
               /\ log.level = "fatal"
               /\ log.msg # "unable to load aws configuration"

\* Startup ended on the last setting it reads: a SLEEP_PERIOD that is no
\* duration.
C18_Witness ==
    /\ pc = "fatal"
    /\ environ.SLEEP_PERIOD = <<"1", "0">>
    /\ log = Event("fatal", "invalid SLEEP_PERIOD environment variable")

\* C19: after startup the TTL is 300, the interval 5 minutes, the URL
\* http://checkip.amazonaws.com/ and the port 8080 unless DNS_TTL,
\* SLEEP_PERIOD, CHECK_IP or -port is given, and each of these sets its own
\* setting, and that setting only, to the value given.
C19_DefaultsAndOverrides ==
    pc = "select" =>
        /\ dnsName = environ.DNS_NAME
        /\ hostedZoneId = environ.HOSTED_ZONE_ID
        /\ dnsTTL = CASE environ.DNS_TTL = << >> -> 300
                      [] environ.DNS_TTL = <<"0">> -> 0
                      [] environ.DNS_TTL = <<"6", "0">> -> 60
        /\ sleepPeriod = CASE environ.SLEEP_PERIOD = << >> -> 5 * 60
                           [] environ.SLEEP_PERIOD = <<"1", "0", "m">> -> 10 * 60
                           [] environ.SLEEP_PERIOD = <<"1", "h", "3", "0", "m">> -> 90 * 60
                           [] environ.SLEEP_PERIOD = <<"0">> -> 0
                           [] environ.SLEEP_PERIOD = <<"-", "5", "m">> -> 0 - 5 * 60
        /\ checkIPURL = IF environ.CHECK_IP = << >>
                        THEN <<"h", "t", "t", "p", ":", "/", "/", "c", "h", "e", "c", "k", "i", "p", ".", "a", "m", "a", "z", "o", "n", "a", "w", "s", ".", "c", "o", "m", "/">>
                        ELSE environ.CHECK_IP
        /\ port = CASE args = None -> 8080
                    [] args = Some(<<"9", "0", "9", "0">>) -> 9090
                    [] args = Some(<<"1">>) -> 1
                    [] args = Some(<<"6", "5", "5", "3", "5">>) -> 65535

\* Startup is complete with CHECK_IP given and every other setting left at
\* its default.
C19_Witness ==
    /\ pc = "select"
    /\ environ.CHECK_IP = checkIPURL
    /\ checkIPURL # CheckIPURLDefault
    /\ dnsTTL = 300 /\ sleepPeriod = 300 /\ port = 8080

\* C20: every GET /healthz is answered with status 200, Content-Type
\* text/plain and the body "200 OK", whatever the loop is doing.
C20_HealthzAnswer ==
    answer # None =>
        answer[1] = [status |-> 200, contentType |-> "text/plain", body |-> "200 OK"]

\* C21: on the shutdown signal the server is shut down under a grace period
\* of its own, and the process does not exit before that shutdown has
\* completed or its grace period has expired.
C21_ExitAfterServerShutdown ==
    pc = "exited" => server \in {"closed", "expired"}

\* The outgoing call that may come straight after another one in a cycle.
Follows(a, b) ==
    \/ b.op = "list" /\ a \in {Step("fetch", "ok"), Step("list", "more"),
                               Step("wait", "insync")}
    \/ b.op = "change" /\ a.op = "list" /\ a.res \in {"found", "absent"}
    \/ b.op = "wait" /\ a = Step("change", "ok")

\* C22: the outgoing calls of a cycle come in the order observe, read, write,
\* track, confirm: the cycle starts with the one address request; a list call
\* follows only a validated observation, a truncated page of the same read or
\* a wait that reported the change propagated; the change call follows only a
\* read that returned a result; the wait follows only an accepted change; and
\* there is one address request, one change call and one wait at most, the
\* change call coming after the first read and before the confirm read.
C22_StepsInOrder ==
    /\ steps # << >> => steps[1].op = "fetch"
    /\ \A i \in 2..Len(steps) : Follows(steps[i - 1], steps[i])
    /\ Cardinality(StepsWith("fetch")) <= 1
    /\ Cardinality(StepsWith("change")) <= 1
    /\ Cardinality(StepsWith("wait")) <= 1
    /\ pc = "read" => steps # << >> /\ StepsWith("change") = {}
    /\ pc = "write" => LastStep.op = "list" /\ LastStep.res \in {"found", "absent"}
    /\ pc = "wait" => LastStep = Step("change", "ok")
    /\ pc = "confirm" => StepsWith("wait") # {}

\* A cycle went through all its steps: observation, read over two pages,
\* change, wait and confirm read.
C22_Witness ==
    /\ pc = "record"
    /\ Len(steps) = 6
    /\ steps[2] = Step("list", "more")
    /\ steps[4] = Step("change", "ok")
    /\ steps[5] = Step("wait", "insync")
    /\ steps[6].op = "list"

\* C23: a cycle whose change was accepted waits for its propagation, and a
\* wait that used up the maximum wait is reported at warning level, the
\* update staying counted.
C23_TimeoutIsAWarning ==
    /\ LastStep = Step("change", "ok") => pc = "wait"
    /\ (pc = "record" /\ LastStep = Step("wait", "exceeded max wait time")) =>
           /\ log.level = "warn"
           /\ updatesTotal = startUpdates + 1

\* The confirm read of the running cycle has returned to updateRoute53.
ConfirmReturned ==
    /\ StepsWith("wait") # {}
    /\ LastStep.op = "list"
    /\ LastStep.res \in {"error", "found", "absent"}

\* C24: whatever the confirm read returns, an error or a record that differs
\* in value or TTL from the one written, the cycle ends there: it has sent
\* the one change and no other, the update counter holds the increment of
\* that change, the cycle returns to the scheduler, and a record that was
\* read is reported with "change propagated" whether or not it is the one
\* written.
C24_ConfirmOnlyObserves ==
    ConfirmReturned =>
        /\ pc \in {"record", "select", "exited"}
        /\ Cardinality(StepsWith("change")) = 1
        /\ updatesTotal = startUpdates + 1
        /\ changeInput = Some(ChangeRequest(dnsName, dnsTTL, ipstr, hostedZoneId))
        /\ pc = "record" =>
               log = IF LastStep.res = "error"
                     THEN Event("error", "unable to get updated record value")
                     ELSE Event("info", "change propagated")

\* The confirm read returned a record that is not the one the cycle wrote.
C24_Witness ==
    /\ ConfirmReturned
    /\ LastStep.res = "found"
    /\ updatedRecordValue # ipstr

\* C25: the confirm read is made exactly in the cycles whose wait reported
\* the change propagated: after such a wait the next call of the cycle is the
\* list call of the confirm read, and a wait that ended on the time-out, on a
\* failed status poll or on the cancellation is the last call of its cycle.
C25_ConfirmIffPropagated ==
    /\ \A i \in StepsWith("wait") :
           IF steps[i].res = "insync"
           THEN IF i = Len(steps) THEN pc = "confirm" ELSE steps[i + 1].op = "list"
           ELSE /\ i = Len(steps)
                /\ steps[i].res \in {"exceeded max wait time", "get change failed",
                                     "context canceled"}
                /\ pc \in {"waiterr", "record", "select", "exited"}
    /\ pc = "confirm" => \E i \in StepsWith("wait") : steps[i].res = "insync"
    /\ \A i \in StepsWith("list") :
           (\E c \in StepsWith("change") : c < i) =>
               \E j \in StepsWith("wait") : j < i /\ steps[j].res = "insync"

\* A cycle has ended on a failed status poll, without a confirm read.
C25_Witness ==
    /\ pc = "record"
    /\ LastStep = Step("wait", "get change failed")
    /\ ret.err = Nil
    /\ updatedRecordValue = << >>

\* C26: a cycle sends one change request at most, whatever its outcome: a
\* step that sends a change request is taken only in a cycle that has sent
\* none, the provider accepts one change per step at most and only in such a
\* step, and the request a cycle has sent stays the one it sent.
C26_OneChangePerCycle ==
    [][ /\ (/\ Len(steps') = Len(steps) + 1
            /\ steps'[Len(steps')].op = "change")
           => (StepsWith("change") = {} /\ changeInput = None)
        /\ accepted' \in {accepted, accepted + 1}
        /\ accepted' # accepted
           => (StepsWith("change") = {} /\ steps' = Append(steps, Step("change", "ok")))
        /\ (changeInput # None /\ cycles' = cycles) => changeInput' = changeInput
      ]_vars

\* A cycle whose change request was rejected has returned; the provider has
\* accepted nothing from it.
C26_Witness ==
    /\ pc = "record"
    /\ LastStep = Step("change", "error")
    /\ updatesTotal = startUpdates
    /\ accepted = 0

\* The running read is over: its result is with updateRoute53.
ReadOver == ret.err # "pending"

\* The last list call of the running cycle.
LastList ==
    LET L == StepsWith("list")
    IN  IF L = {} THEN Step("none", "none")
        ELSE steps[CHOOSE i \in L : \A j \in L : j <= i]

\* C27: a read ends after finitely many list calls.  Each page but the last
\* one was truncated and held no record set for the host name, and the
\* request after it carries its continuation markers; a page that is not
\* truncated and holds no such record set is the last one, the read returns
\* "no record" on it, and a read never makes more list calls than the zone
\* has record sets to page through.
C27_ReadEndsOnLastPage ==
    /\ \A i \in 1..(Len(trail) - 1) :
           /\ trail[i].page # None
           /\ trail[i].page[1].IsTruncated
           /\ Matches(trail[i].page[1], dnsName) = {}
           /\ trail[i + 1].in = NextInput(trail[i].in, trail[i].page[1])
    /\ \A i \in 1..Len(trail) :
           (/\ trail[i].page # None
            /\ ~trail[i].page[1].IsTruncated
            /\ Matches(trail[i].page[1], dnsName) = {})
           => /\ i = Len(trail)
              /\ ReadOver
              /\ ret = [value |-> << >>, ttl |-> 0, err |-> Nil]
              /\ LastList = Step("list", "absent")
    /\ Len(trail) <= Len(ZoneKeys)
    /\ (trail # << >> /\ ~ReadOver /\ pc # "crashed") =>
           /\ pc \in {"read", "confirm"}
           /\ trail[Len(trail)].page # None
           /\ trail[Len(trail)].page[1].IsTruncated
           /\ input = NextInput(trail[Len(trail)].in, trail[Len(trail)].page[1])

\* A read of the record of a host name has gone through a truncated page and
\* ended on a page that was not truncated, without a record.
C27_Witness ==
    /\ dnsName \notin Qualified
    /\ Len(trail) = 2
    /\ ReadOver
    /\ LastList = Step("list", "absent")

\* The cadence of the status polls (time.Sleep(10 * time.Second)), in seconds.
Cadence == 10

\* C28: the status polls of a wait come at the fixed cadence of 10 seconds:
\* every delay between two polls is the cadence; a poll that answers INSYNC
\* ends the wait; and the polls answered "PENDING" stay within the maximum
\* wait.
C28_PollsAtFixedCadence ==
    /\ (pc = "wait" /\ waited > 0) => delay = Cadence
    /\ (\E i \in StepsWith("wait") : steps[i].res = "insync") => pc # "wait"
    /\ waited <= MaxWait

\* C29: the duration counter grows by the time the cycle took, once per
\* cycle and whatever the cycle's outcome: a cycle that has returned is left
\* by one step only, which adds the time since the cycle started to the
\* counter and sets the timer for the next wait; no other step changes the
\* counter or sets the timer.
C29_DurationAddedOncePerCycle ==
    [][ /\ (pc = "record" /\ pc' # "record") =>
               /\ updateDuration' = updateDuration + since
               /\ timer = "idle" /\ timer' = "armed"
               /\ pc' = "select"
               /\ cycles' = cycles
        /\ updateDuration' # updateDuration => (pc = "record" /\ pc' = "select")
        /\ (timer # "armed" /\ timer' = "armed") => (pc = "record" /\ pc' = "select")
        /\ pc' = "record" => pc \in {"fetch", "read", "write", "waiterr", "confirm",
                                     "record"}
      ]_vars

\* Two cycles have returned, the second one on an error, and each has added
\* its time to the counter.
C29_Witness ==
    /\ pc = "select"
    /\ cycles = 2
    /\ CycleFailed
    /\ since = 1
    /\ updateDuration = 2

\* C30: the wait set after a cycle is the configured interval, after a cycle
\* that ended on an error as after any other: the interval never changes,
\* the step that ends a cycle sets the timer to it, and once a cycle has run
\* the timer is set to nothing else.
C30_IntervalWithoutBackoff ==
    [][ /\ sleepPeriod' = sleepPeriod
        /\ (pc = "record" /\ pc' = "select") =>
               (timer' = "armed" /\ timerDur' = sleepPeriod)
        /\ (cycles >= 1 /\ pc' = "select") => timerDur' = sleepPeriod
        /\ timerDur' # timerDur => pc = "record"
      ]_vars

\* The timer is set to the interval after a second cycle in a row that ended
\* on an error: the zone never held the record, and no change was accepted.
C30_Witness ==
    /\ pc = "select"
    /\ timer = "armed"
    /\ timerDur = sleepPeriod
    /\ cycles = 2
    /\ CycleFailed
    /\ accepted = 0
    /\ extEdits = 0
    /\ dnsName \notin Qualified
    /\ HostRecord(zone, dnsName) = NoRecord

\* C31: while the loop runs, the host name and the zone identifier are not
\* empty, the TTL is not negative and the interval is a positive duration,
\* whatever the environment startup accepted.
C31_LoopConfiguration ==
    pc = "select" =>
        /\ dnsName # ""
        /\ hostedZoneId # ""
        /\ dnsTTL >= 0
        /\ sleepPeriod > 0

\* C32: the value and the TTL a cycle compares come from a list call of that
\* same cycle, made after the cycle's own observation, and are those of the
\* page the provider lists at that call, so that a record set another actor
\* changed since the cycle before is the one compared; nothing read by an
\* earlier cycle is used.
C32_ComparesFreshState ==
    [][(pc = "read" /\ pc' \in {"write", "record"} /\ ret'.err = Nil) =>
          LET page == ListPage(zone, input) IN
          /\ steps # << >>
          /\ steps[1] = Step("fetch", "ok")
          /\ \E res \in {"found", "absent"} : steps' = Append(steps, Step("list", res))
          /\ trail' = Append(trail, [in |-> input, page |-> Some(page)])
          /\ IF Matches(page, dnsName) # {}
             THEN LET rs == page.ResourceRecordSets[FirstMatch(page, dnsName)] IN
                  /\ currentRecordValue' = rs.ResourceRecords[1].Value
                  /\ currentRecordTTL' = Uint64(rs.TTL)
             ELSE /\ currentRecordValue' = << >>
                  /\ currentRecordTTL' = 0]_vars

\* The second cycle has compared a record that differs from the one the
\* first cycle had read, after another actor changed it.
C32_Witness ==
    /\ cycles = 2
    /\ prev # None
    /\ extEdits = 1
    /\ Decided
    /\ <<currentRecordValue, currentRecordTTL>> # <<prev[1].addr, dnsTTL>>

\* C33: neither counter ever decreases, whatever the cycles do and however
\* requests to the server fall between their steps, and a step that serves
\* /metrics or /healthz leaves both counters as they are.
C33_CountersNeverDecrease ==
    [][/\ updatesTotal' >= updatesTotal
       /\ updateDuration' >= updateDuration
       /\ (answer' # answer \/ scraped' # scraped) =>
              UNCHANGED <<updatesTotal, updateDuration>>]_vars

\* Both counters have grown, the health check has been answered and the
\* counters have been exposed between two steps of a cycle.
C33_Witness ==
    /\ updatesTotal > 0
    /\ updateDuration > 0
    /\ answer # None
    /\ scraped # None
    /\ scraped[1].updates = updatesTotal
    /\ scraped[1].duration < updateDuration
    /\ InFlight

\* C34: a cycle sends at most one request to the address-check endpoint, as
\* its first step; when the request fails, or what it returns is not an
\* address, nothing follows it in the cycle, which has returned.
C34_OneObservationPerCycle ==
    /\ Cardinality(StepsWith("fetch")) <= 1
    /\ \A i \in StepsWith("fetch") :
          /\ i = 1
          /\ steps[i].res # "ok" =>
                 /\ Len(steps) = 1
                 /\ pc \in {"record", "select", "exited"}
    /\ pc \in {"read", "write", "wait", "waiterr", "confirm"} =>
           steps[1] = Step("fetch", "ok")

\* The second cycle ended on its one address request, which failed.
C34_Witness ==
    /\ cycles = 2
    /\ pc = "select"
    /\ resp.status = "request_error"
    /\ steps = <<Step("fetch", "request_error")>>

\* C35: the value of every change request sent for the A record is a dotted
\* quad of four octets in 0..255, without surrounding white space: it is
\* never empty and never an IPv6 literal.
C35_SubmitsDottedQuad ==
    changeInput # None =>
        \A i \in DOMAIN changeInput[1].Changes :
            \A j \in DOMAIN changeInput[1].Changes[i].ResourceRecords :
                LET v == changeInput[1].Changes[i].ResourceRecords[j].Value IN
                /\ v # << >>
                /\ v = TrimSpace(v)
                /\ DottedQuad(v)

\* C36: for every host name startup accepts, one that ends with a dot
\* included, the name the writer sends and the name the reader looks for
\* denote the same record of the provider: once a cycle's upsert has been
\* accepted and no other actor has touched the record, a read that follows
\* and returns without error finds the record with the value and the TTL that were written.
C36_NameRoundTrip ==
    (ConfirmReturned /\ LastStep.res # "error" /\ extEdits = 0) =>
        /\ Fqdn(dnsName) = dnsName \o "."
        /\ updatedRecordValue = ipstr
        /\ updatedRecordTTL = dnsTTL

\* C37: every list call of a record read ends with a value, with the request
\* for the next page or with an error, whatever the page holds, a matching
\* record set without values or without a TTL included; the read never ends
\* the process.
C37_ReadNeverAborts ==
    /\ \A i \in StepsWith("list") : steps[i].res \in {"more", "found", "absent", "error"}
    /\ pc # "crashed"

\* The results of the calls of a cycle that ended on an error.
Failures ==
    {"request_error", "body_error", "error", "get change failed", "context canceled"}

\* C38: once the shutdown signal has arrived the loop exits, whatever it was
\* doing: the scheduler's wait ends, and every call an in-flight cycle makes
\* from then on (address request, read, change, wait) fails on the cancelled
\* context, so that the cycle returns and the loop exits.
C38_ExitsAfterSignal ==
    /\ ctxDone ~> pc = "exited"
    /\ [][(ctxDone /\ Len(steps') > Len(steps)) => LastStep'.res \in Failures]_vars

\* The loop has exited after the signal interrupted the wait for
\* propagation of an in-flight cycle.
C38_Witness ==
    /\ pc = "exited"
    /\ ctxDone
    /\ waitErr = "context canceled"
    /\ log = Event("info", "shutting down")
====
